---- MODULE Spec2Model ----
(***************************************************************************)
(* A model of the relay broker of the encrypted chat (src/server.js):      *)
(* the registry `clients`, the per-connection receive buffer and the       *)
(* handlers of the socket events data, end, error and close, together      *)
(* with the SIGINT handler that half-closes every registered socket.       *)
(*                                                                         *)
(* A connection is identified by `${remoteAddress}:${remotePort}`; the     *)
(* model gives every connection an identifier of its own.  Text on the     *)
(* wire is a sequence of tokens: JSON.stringify renders a record as two    *)
(* tokens (its two halves, so that the transport can split a frame), a     *)
(* line-feed is one token, and JSON.parse accepts exactly the two halves   *)
(* of one record.                                                          *)
(***************************************************************************)
EXTENDS Integers, Sequences, FiniteSets, TLC

VARIABLES
    clients,       \* the registry Map, as the sequence of its entries in insertion order
    status,        \* per connection: "idle", "open", "ended", "errored", "closed"
    writable,      \* per connection: socket.writable
    identifier,    \* per connection: socket.identifier ("" while unset)
    clientBuffer,  \* per connection: the handler's clientBuffer
    listening,     \* the server still accepts connections (no SIGINT yet)
    event,         \* the handler that is running: [kind, conn]; kind "idle" between handlers;
                   \* a data handler also notes the text it works on and the registry it found
    steps,         \* one entry per record the last data handler processed
    sent,          \* what the running handler has written, in order: [to, data]
    lastRegister,  \* per live connection: the latest REGISTER it sent (history)
    me,            \* per client: the state object ME of src/client.js
    typed,         \* what the user typed into the chat that is being sent: [by, text]
    display,       \* the chat lines the clients have just displayed: [at, from, text]
    sockets,       \* per client: the sockets it has made, in order, each with its state,
                   \* and which of them ME.socket is (0 is null)
    calc           \* a computation of the coding and cipher functions: argument and results

brokerVars == <<clients, status, writable, identifier, clientBuffer, listening,
                event, steps, sent, lastRegister>>

clientVars == <<me, typed, display, sockets>>

vars == <<clients, status, writable, identifier, clientBuffer, listening,
          event, steps, sent, lastRegister, me, typed, display, sockets, calc>>

(***************************************************************************)
(* Bounds and input sets.                                                  *)
(***************************************************************************)
MaxSymbols == 4

Conns == {"h:1", "h:2"}

Names == {"", "bob", "h:1"}

\* decimal strings are written as the sequences of their digits
Keys == {[e |-> <<3>>, n |-> <<3, 3>>], [e |-> <<7>>, n |-> <<5, 5>>]}

\* two ciphertexts of MaxSymbols symbols each: one ascending, one descending
Payloads == {[i \in 1..MaxSymbols |-> i], [i \in 1..MaxSymbols |-> MaxSymbols + 1 - i]}

Targets == Conns \cup {"", "bob", "zed"}

Receivers == Conns \cup {"bob"}

NoRegister == [type |-> "none"]

\* ME.keys and ME.receiver while null
NoKeys == [none |-> TRUE]

NoReceiver == [none |-> TRUE]

INITIAL_ME_STATE ==
    [receiver |-> NoReceiver, keys |-> NoKeys, name |-> "", identifier |-> "",
     isConnected |-> FALSE]

Idle == [op |-> "idle"]

\* A client that has made no socket yet: ME.socket is null.
NoSockets == [current |-> 0, state |-> <<>>]

(***************************************************************************)
(* The records a client can send.                                          *)
(***************************************************************************)
RegisterRecords ==
    {[type |-> "REGISTER", name |-> nm, public_key |-> k] : nm \in Names, k \in Keys}
    \cup {[type |-> "REGISTER", public_key |-> k] : k \in Keys}

StartChatRecords ==
    {[type |-> "START_CHAT_REQUEST_PK", targetIdentifier |-> t] : t \in Targets}

MessageRecords ==
    {[type |-> "MESSAGE", receiver |-> r, encryptedMessage |-> p] :
        r \in Receivers, p \in Payloads}

Records ==
    RegisterRecords \cup StartChatRecords \cup MessageRecords
    \cup {[type |-> "LIST_REQUEST"], [type |-> "PING"]}

(***************************************************************************)
(* Framing: JSON.stringify, JSON.parse and the line-feed.                  *)
(***************************************************************************)
LF == [rec |-> [type |-> "\n"], part |-> 0]

Garbage == [rec |-> [type |-> "garbage"], part |-> 3]

JSONstringify(r) == <<[rec |-> r, part |-> 1], [rec |-> r, part |-> 2]>>

JSONparse(line) ==
    IF /\ Len(line) = 2
       /\ line[1].part = 1
       /\ line[2].part = 2
       /\ line[1].rec = line[2].rec
    THEN [ok |-> TRUE, value |-> line[1].rec]
    ELSE [ok |-> FALSE, value |-> [type |-> "SyntaxError"]]

Frame(r) == JSONstringify(r) \o <<LF>>

\* indexOf looking for the last line-feed instead of the first
indexOf_Last(buf) ==
    IF \E i \in DOMAIN buf : buf[i] = [rec |-> [type |-> "\n"], part |-> 0]
    THEN CHOOSE i \in DOMAIN buf :
            /\ buf[i] = [rec |-> [type |-> "\n"], part |-> 0]
            /\ \A j \in (i + 1)..Len(buf) : buf[j] # [rec |-> [type |-> "\n"], part |-> 0]
    ELSE 0

\* clientBuffer.indexOf("\n"): the first line-feed, 0 when there is none (-1 in JS)
indexOf(buf) ==
    IF \E i \in DOMAIN buf : buf[i] = LF
    THEN CHOOSE i \in DOMAIN buf :
            /\ buf[i] = LF
            /\ \A j \in 1..(i - 1) : buf[j] # LF
    ELSE 0

(***************************************************************************)
(* The registry: a JavaScript Map keyed by identifier.                     *)
(***************************************************************************)
MapHas(cl, k) == \E i \in DOMAIN cl : cl[i].id = k

MapIndex(cl, k) == CHOOSE i \in DOMAIN cl : cl[i].id = k

MapGet(cl, k) == cl[MapIndex(cl, k)]

\* MapSet adding a second entry under a key that is already present
MapSet_Append(cl, k, v) == Append(cl, v)

\* MapSet keeping the first value stored under a key
MapSet_KeepFirst(cl, k, v) == IF MapHas(cl, k) THEN cl ELSE Append(cl, v)

MapSet(cl, k, v) ==
    IF MapHas(cl, k)
    THEN [i \in DOMAIN cl |-> IF cl[i].id = k THEN v ELSE cl[i]]
    ELSE Append(cl, v)

\* MapDelete emptying the registry (clients.clear())
MapDelete_Clear(cl, k) == <<>>

MapDelete(cl, k) == SelectSeq(cl, LAMBDA en : en.id # k)

(***************************************************************************)
(* sendJson(socket, data): the broker's one way of sending.  The record    *)
(* is written when the socket is writable; otherwise the call does         *)
(* nothing.                                                                *)
(***************************************************************************)
sendJson(socket, data) ==
    IF writable[socket] THEN <<[to |-> socket, data |-> data]>> ELSE <<>>

\* message.name || ''
NameOf(m) == IF "name" \in DOMAIN m /\ m.name # "" THEN m.name ELSE ""

(***************************************************************************)
(* The cases of the switch on message.type.  Each yields the registry      *)
(* after the record, what was written, whether the handler returned        *)
(* (leaving the loop) and whether socket.identifier was set.               *)
(***************************************************************************)
\* HandleRegister delivering, after the acknowledgment, a message kept for the newcomer
HandleRegister_Flush(c, cl, m) ==
    [clients |-> MapSet(cl, c, [id |-> c, socket |-> c, name |-> NameOf(m),
                                public_key |-> m.public_key]),
     sent |-> sendJson(c, [type |-> "REGISTER_ACK", identifier |-> c])
              \o sendJson(c, [type |-> "INCOMING_MESSAGE", sender |-> "",
                              senderName |-> "", encryptedMessage |-> <<>>]),
     returned |-> FALSE,
     registered |-> TRUE]

\* HandleRegister keeping the public key of an entry that is already present
HandleRegister_KeepsKey(c, cl, m) ==
    [clients |-> MapSet(cl, c, [id |-> c, socket |-> c, name |-> NameOf(m),
                                public_key |-> IF MapHas(cl, c)
                                               THEN MapGet(cl, c).public_key
                                               ELSE m.public_key]),
     sent |-> sendJson(c, [type |-> "REGISTER_ACK", identifier |-> c]),
     returned |-> FALSE,
     registered |-> TRUE]

HandleRegister(c, cl, m) ==
    [clients |-> MapSet(cl, c, [id |-> c, socket |-> c, name |-> NameOf(m),
                                public_key |-> m.public_key]),
     sent |-> sendJson(c, [type |-> "REGISTER_ACK", identifier |-> c]),
     returned |-> FALSE,
     registered |-> TRUE]

\* HandleList leaving the requester out of the list
HandleList_OthersOnly(c, cl, m) ==
    LET others == SelectSeq(cl, LAMBDA en : en.id # c)
    IN  [clients |-> cl,
         sent |-> sendJson(c, [type |-> "CLIENT_LIST",
                               list |-> [i \in DOMAIN others |->
                                           [identifier |-> others[i].id,
                                            name |-> others[i].name]]]),
         returned |-> FALSE,
         registered |-> FALSE]

HandleList(c, cl, m) ==
    [clients |-> cl,
     sent |-> sendJson(c, [type |-> "CLIENT_LIST",
                           list |-> [i \in DOMAIN cl |->
                                       [identifier |-> cl[i].id, name |-> cl[i].name]]]),
     returned |-> FALSE,
     registered |-> FALSE]

\* HandleStartChat whose scan by name does not skip the requester's own entry
HandleStartChat_ScanSelf(c, cl, m) ==
    LET t == m.targetIdentifier
        scan == {i \in DOMAIN cl : cl[i].name = t}
        first == CHOOSE i \in scan : \A j \in scan : i <= j
        found == MapHas(cl, t) \/ (t # "" /\ scan # {})
        target == IF MapHas(cl, t) THEN MapGet(cl, t) ELSE cl[first]
    IN  [clients |-> cl,
         sent |-> IF found
                  THEN sendJson(c, [type |-> "START_CHAT_INFO",
                                    identifier |-> target.id,
                                    name |-> target.name,
                                    public_key |-> target.public_key])
                  ELSE sendJson(c, [type |-> "TARGET_NOT_FOUND",
                                    identifier |-> t,
                                    message |-> "Receiver not found or offline."]),
         returned |-> FALSE,
         registered |-> FALSE]

\* HandleStartChat assigning message.targetIdentifier for every entry it scans
HandleStartChat_EchoScanned(c, cl, m) ==
    LET t == m.targetIdentifier
        scan == {i \in DOMAIN cl : cl[i].name = t /\ cl[i].id # c}
        first == CHOOSE i \in scan : \A j \in scan : i <= j
        found == MapHas(cl, t) \/ (t # "" /\ scan # {})
        target == IF MapHas(cl, t) THEN MapGet(cl, t) ELSE cl[first]
    IN  [clients |-> cl,
         sent |-> IF found
                  THEN sendJson(c, [type |-> "START_CHAT_INFO",
                                    identifier |-> target.id,
                                    name |-> target.name,
                                    public_key |-> target.public_key])
                  ELSE sendJson(c, [type |-> "TARGET_NOT_FOUND",
                                    identifier |-> IF t # "" /\ cl # <<>>
                                                   THEN cl[Len(cl)].id ELSE t,
                                    message |-> "Receiver not found or offline."]),
         returned |-> FALSE,
         registered |-> FALSE]

HandleStartChat(c, cl, m) ==
    LET t == m.targetIdentifier
        scan == {i \in DOMAIN cl : cl[i].name = t /\ cl[i].id # c}
        first == CHOOSE i \in scan : \A j \in scan : i <= j
        found == MapHas(cl, t) \/ (t # "" /\ scan # {})
        target == IF MapHas(cl, t) THEN MapGet(cl, t) ELSE cl[first]
    IN  [clients |-> cl,
         sent |-> IF found
                  THEN sendJson(c, [type |-> "START_CHAT_INFO",
                                    identifier |-> target.id,
                                    name |-> target.name,
                                    public_key |-> target.public_key])
                  ELSE sendJson(c, [type |-> "TARGET_NOT_FOUND",
                                    identifier |-> t,
                                    message |-> "Receiver not found or offline."]),
         returned |-> FALSE,
         registered |-> FALSE]

\* HandleMessage forwarding the three-symbol log preview instead of the payload
HandleMessage_Preview(c, cl, m) ==
    IF ~MapHas(cl, c)
    THEN [clients |-> cl, sent |-> <<>>, returned |-> TRUE, registered |-> FALSE]
    ELSE LET senderClient == MapGet(cl, c)
         IN  [clients |-> cl,
              sent |-> IF MapHas(cl, m.receiver)
                          /\ writable[MapGet(cl, m.receiver).socket]
                       THEN sendJson(MapGet(cl, m.receiver).socket,
                                     [type |-> "INCOMING_MESSAGE",
                                      sender |-> c,
                                      senderName |-> senderClient.name,
                                      encryptedMessage |->
                                          SubSeq(m.encryptedMessage, 1, 3)])
                       ELSE IF writable[senderClient.socket]
                            THEN sendJson(senderClient.socket,
                                          [type |-> "DELIVERY_ERROR",
                                           recipient |-> m.receiver,
                                           reason |-> "User is offline or does not exist."])
                            ELSE <<>>,
              returned |-> FALSE,
              registered |-> FALSE]

\* HandleMessage naming the sender, not the intended receiver, in the failure notice
HandleMessage_WrongRecipient(c, cl, m) ==
    IF ~MapHas(cl, c)
    THEN [clients |-> cl, sent |-> <<>>, returned |-> TRUE, registered |-> FALSE]
    ELSE LET senderClient == MapGet(cl, c)
         IN  [clients |-> cl,
              sent |-> IF MapHas(cl, m.receiver)
                          /\ writable[MapGet(cl, m.receiver).socket]
                       THEN sendJson(MapGet(cl, m.receiver).socket,
                                     [type |-> "INCOMING_MESSAGE",
                                      sender |-> c,
                                      senderName |-> senderClient.name,
                                      encryptedMessage |-> m.encryptedMessage])
                       ELSE IF writable[senderClient.socket]
                            THEN sendJson(senderClient.socket,
                                          [type |-> "DELIVERY_ERROR",
                                           recipient |-> c,
                                           reason |-> "User is offline or does not exist."])
                            ELSE <<>>,
              returned |-> FALSE,
              registered |-> FALSE]

\* HandleMessage without the else: the failure notice follows every forward too
HandleMessage_NoElse(c, cl, m) ==
    IF ~MapHas(cl, c)
    THEN [clients |-> cl, sent |-> <<>>, returned |-> TRUE, registered |-> FALSE]
    ELSE LET senderClient == MapGet(cl, c)
         IN  [clients |-> cl,
              sent |-> (IF MapHas(cl, m.receiver)
                           /\ writable[MapGet(cl, m.receiver).socket]
                        THEN sendJson(MapGet(cl, m.receiver).socket,
                                      [type |-> "INCOMING_MESSAGE",
                                       sender |-> c,
                                       senderName |-> senderClient.name,
                                       encryptedMessage |-> m.encryptedMessage])
                        ELSE <<>>)
                       \o (IF writable[senderClient.socket]
                           THEN sendJson(senderClient.socket,
                                         [type |-> "DELIVERY_ERROR",
                                          recipient |-> m.receiver,
                                          reason |-> "User is offline or does not exist."])
                           ELSE <<>>),
              returned |-> FALSE,
              registered |-> FALSE]

HandleMessage(c, cl, m) ==
    IF ~MapHas(cl, c)
    THEN [clients |-> cl, sent |-> <<>>, returned |-> TRUE, registered |-> FALSE]
    ELSE LET senderClient == MapGet(cl, c)
         IN  [clients |-> cl,
              sent |-> IF MapHas(cl, m.receiver)
                          /\ writable[MapGet(cl, m.receiver).socket]
                       THEN sendJson(MapGet(cl, m.receiver).socket,
                                     [type |-> "INCOMING_MESSAGE",
                                      sender |-> c,
                                      senderName |-> senderClient.name,
                                      encryptedMessage |-> m.encryptedMessage])
                       ELSE IF writable[senderClient.socket]
                            THEN sendJson(senderClient.socket,
                                          [type |-> "DELIVERY_ERROR",
                                           recipient |-> m.receiver,
                                           reason |-> "User is offline or does not exist."])
                            ELSE <<>>,
              returned |-> FALSE,
              registered |-> FALSE]

\* HandleUnknown leaving the handler, as the MESSAGE case does for an unknown sender
HandleUnknown_Returns(c, cl, m) ==
    [clients |-> cl,
     sent |-> sendJson(c, [type |-> "ERROR",
                           message |-> <<"Unknown command type: ", m.type>>]),
     returned |-> TRUE,
     registered |-> FALSE]

HandleUnknown(c, cl, m) ==
    [clients |-> cl,
     sent |-> sendJson(c, [type |-> "ERROR",
                           message |-> <<"Unknown command type: ", m.type>>]),
     returned |-> FALSE,
     registered |-> FALSE]

\* HandleInvalid only logging the parse failure
HandleInvalid_Silent(c, cl) ==
    [clients |-> cl,
     sent |-> <<>>,
     returned |-> FALSE,
     registered |-> FALSE]

HandleInvalid(c, cl) ==
    [clients |-> cl,
     sent |-> sendJson(c, [type |-> "ERROR",
                           message |-> <<"Invalid message format from client.">>]),
     returned |-> FALSE,
     registered |-> FALSE]

\* the body of the while loop for one line: try { JSON.parse; switch } catch
HandleLine(c, cl, line) ==
    LET p == JSONparse(line)
        m == p.value
    IN  IF ~p.ok THEN HandleInvalid(c, cl)
        ELSE CASE m.type = "REGISTER" -> HandleRegister(c, cl, m)
               [] m.type = "LIST_REQUEST" -> HandleList(c, cl, m)
               [] m.type = "START_CHAT_REQUEST_PK" -> HandleStartChat(c, cl, m)
               [] m.type = "MESSAGE" -> HandleMessage(c, cl, m)
               [] OTHER -> HandleUnknown(c, cl, m)

(***************************************************************************)
(* socket.on("data"): append the chunk, then process every complete line   *)
(* of the buffer in order.  `h` is the history of REGISTER records, `acc`  *)
(* the steps so far and `out` what has been written so far.                *)
(***************************************************************************)
RECURSIVE ProcessBuffer(_, _, _, _, _, _)
ProcessBuffer(c, cl, buf, h, acc, out) ==
    LET boundary == indexOf(buf)
    IN  IF boundary = 0
        THEN [clients |-> cl, buffer |-> buf, history |-> h, steps |-> acc, sent |-> out]
        ELSE LET singleMessageString == SubSeq(buf, 1, boundary - 1)
                 rest == SubSeq(buf, boundary + 1, Len(buf))
                 p == JSONparse(singleMessageString)
                 r == HandleLine(c, cl, singleMessageString)
                 step == [conn |-> c, ok |-> p.ok, rec |-> p.value,
                          before |-> cl, after |-> r.clients,
                          history |-> h, sent |-> r.sent,
                          returned |-> r.returned, registered |-> r.registered]
                 h2 == IF r.registered THEN [h EXCEPT ![c] = p.value] ELSE h
             IN  IF r.returned
                 THEN [clients |-> r.clients, buffer |-> rest, history |-> h2,
                       steps |-> Append(acc, step), sent |-> out \o r.sent]
                 ELSE ProcessBuffer(c, r.clients, rest, h2,
                                    Append(acc, step), out \o r.sent)

RECURSIVE Concat(_)
Concat(ss) == IF ss = <<>> THEN <<>> ELSE Head(ss) \o Concat(Tail(ss))

\* the chunks a data event carries here: one complete frame, or a line that does not parse
Chunks == {Frame(r) : r \in Records} \cup {<<Garbage, LF>>}

(***************************************************************************)
(* Initial state: the server listens, nobody is connected.                 *)
(***************************************************************************)
Init ==
    /\ clients = <<>>
    /\ status = [c \in Conns |-> "idle"]
    /\ writable = [c \in Conns |-> FALSE]
    /\ identifier = [c \in Conns |-> ""]
    /\ clientBuffer = [c \in Conns |-> <<>>]
    /\ listening = TRUE
    /\ event = [kind |-> "idle", conn |-> ""]
    /\ steps = <<>>
    /\ sent = <<>>
    /\ lastRegister = [c \in Conns |-> NoRegister]
    /\ me = [c \in Conns |-> INITIAL_ME_STATE]
    /\ typed = <<>>
    /\ display = <<>>
    /\ sockets = [c \in Conns |-> NoSockets]
    /\ calc = Idle

(***************************************************************************)
(* net.createServer callback: a new connection.                            *)
(***************************************************************************)
Connect(c) ==
    /\ event.kind = "idle"
    /\ listening
    /\ status[c] = "idle"
    /\ status' = [status EXCEPT ![c] = "open"]
    /\ writable' = [writable EXCEPT ![c] = TRUE]
    /\ clientBuffer' = [clientBuffer EXCEPT ![c] = <<>>]
    /\ event' = [kind |-> "connect", conn |-> c]
    /\ steps' = <<>>
    /\ sent' = <<>>
    /\ UNCHANGED <<clients, identifier, listening, lastRegister>>

Data(c, chunk) ==
    /\ event.kind = "idle"
    /\ status[c] = "open"
    /\ LET r == ProcessBuffer(c, clients, clientBuffer[c] \o chunk,
                              lastRegister, <<>>, <<>>)
       IN  /\ clients' = r.clients
           /\ clientBuffer' = [clientBuffer EXCEPT ![c] = r.buffer]
           /\ identifier' = IF \E i \in DOMAIN r.steps : r.steps[i].registered
                            THEN [identifier EXCEPT ![c] = c]
                            ELSE identifier
           /\ lastRegister' = r.history
           /\ steps' = r.steps
           /\ sent' = r.sent
    /\ event' = [kind |-> "data", conn |-> c,
                 input |-> clientBuffer[c] \o chunk, registry |-> clients]
    /\ UNCHANGED <<status, writable, listening>>

\* socket.identifier || clientIdentifier
KeyOf(c) == IF identifier[c] # "" THEN identifier[c] ELSE c

\* the end handler forgetting to delete the registry entry
End_KeepsEntry(c) ==
    /\ event.kind = "idle"
    /\ status[c] = "open"
    /\ status' = [status EXCEPT ![c] = "ended"]
    /\ writable' = [writable EXCEPT ![c] = FALSE]
    /\ lastRegister' = [lastRegister EXCEPT ![c] = NoRegister]
    /\ event' = [kind |-> "end", conn |-> c]
    /\ steps' = <<>>
    /\ sent' = <<>>
    /\ UNCHANGED <<clients, identifier, clientBuffer, listening>>

\* socket.on('end'): the peer finished; the socket, not half-open, ends its own side
End(c) ==
    /\ event.kind = "idle"
    /\ status[c] = "open"
    /\ clients' = IF MapHas(clients, KeyOf(c)) THEN MapDelete(clients, KeyOf(c))
                  ELSE clients
    /\ status' = [status EXCEPT ![c] = "ended"]
    /\ writable' = [writable EXCEPT ![c] = FALSE]
    /\ lastRegister' = [lastRegister EXCEPT ![c] = NoRegister]
    /\ event' = [kind |-> "end", conn |-> c]
    /\ steps' = <<>>
    /\ sent' = <<>>
    /\ UNCHANGED <<identifier, clientBuffer, listening>>

\* socket.on('error'): the socket is destroyed
Error(c) ==
    /\ event.kind = "idle"
    /\ status[c] \in {"open", "ended"}
    /\ clients' = IF MapHas(clients, KeyOf(c)) THEN MapDelete(clients, KeyOf(c))
                  ELSE clients
    /\ status' = [status EXCEPT ![c] = "errored"]
    /\ writable' = [writable EXCEPT ![c] = FALSE]
    /\ lastRegister' = [lastRegister EXCEPT ![c] = NoRegister]
    /\ event' = [kind |-> "error", conn |-> c]
    /\ steps' = <<>>
    /\ sent' = <<>>
    /\ UNCHANGED <<identifier, clientBuffer, listening>>

\* socket.on('close'): only logs
Close(c) ==
    /\ event.kind = "idle"
    /\ status[c] \in {"ended", "errored"}
    /\ status' = [status EXCEPT ![c] = "closed"]
    /\ event' = [kind |-> "close", conn |-> c]
    /\ steps' = <<>>
    /\ sent' = <<>>
    /\ UNCHANGED <<clients, writable, identifier, clientBuffer, listening, lastRegister>>

\* process.on("SIGINT"): notify and end() every registered socket, stop listening
Sigint ==
    /\ event.kind = "idle"
    /\ listening
    /\ sent' = Concat([i \in DOMAIN clients |->
                sendJson(clients[i].socket,
                         [type |-> "SERVER_MESSAGE",
                          message |-> "Server is shutting down."])])
    /\ writable' = [c \in Conns |->
                      IF \E i \in DOMAIN clients : clients[i].socket = c
                      THEN FALSE ELSE writable[c]]
    /\ listening' = FALSE
    /\ event' = [kind |-> "sigint", conn |-> ""]
    /\ steps' = <<>>
    /\ UNCHANGED <<clients, status, identifier, clientBuffer, lastRegister>>

\* the handler has run to completion: back in the event loop, what it wrote has left
Return ==
    /\ event.kind # "idle"
    /\ event' = [kind |-> "idle", conn |-> ""]
    /\ steps' = <<>>
    /\ sent' = <<>>
    /\ UNCHANGED <<clients, status, writable, identifier, clientBuffer, listening,
                   lastRegister>>

\* the broker alone: the clients and the computations stand still
Next ==
    \/ \E c \in Conns : Connect(c) /\ UNCHANGED <<clientVars, calc>>
    \/ \E c \in Conns : \E chunk \in Chunks :
            Data(c, chunk) /\ UNCHANGED <<clientVars, calc>>
    \/ \E c \in Conns : End(c) /\ UNCHANGED <<clientVars, calc>>
    \/ \E c \in Conns : Error(c) /\ UNCHANGED <<clientVars, calc>>
    \/ \E c \in Conns : Close(c) /\ UNCHANGED <<clientVars, calc>>
    \/ Sigint /\ UNCHANGED <<clientVars, calc>>
    \/ Return /\ UNCHANGED <<clientVars, calc>>

Spec == Init /\ [][Next]_vars

(***************************************************************************)
(* Teardown events that come again.  The handlers of a connection stay     *)
(* attached to its socket; here end, error and close may run once more, in *)
(* any order, for a connection that has already ended, errored or closed.  *)
(***************************************************************************)
LateEnd(c) ==
    /\ event.kind = "idle"
    /\ status[c] \in {"ended", "errored", "closed"}
    /\ clients' = IF MapHas(clients, KeyOf(c)) THEN MapDelete(clients, KeyOf(c))
                  ELSE clients
    /\ lastRegister' = [lastRegister EXCEPT ![c] = NoRegister]
    /\ event' = [kind |-> "end", conn |-> c]
    /\ steps' = <<>>
    /\ sent' = <<>>
    /\ UNCHANGED <<status, writable, identifier, clientBuffer, listening>>

LateError(c) ==
    /\ event.kind = "idle"
    /\ status[c] \in {"errored", "closed"}
    /\ clients' = IF MapHas(clients, KeyOf(c)) THEN MapDelete(clients, KeyOf(c))
                  ELSE clients
    /\ lastRegister' = [lastRegister EXCEPT ![c] = NoRegister]
    /\ event' = [kind |-> "error", conn |-> c]
    /\ steps' = <<>>
    /\ sent' = <<>>
    /\ UNCHANGED <<status, writable, identifier, clientBuffer, listening>>

LateClose(c) ==
    /\ event.kind = "idle"
    /\ status[c] = "closed"
    /\ event' = [kind |-> "close", conn |-> c]
    /\ steps' = <<>>
    /\ sent' = <<>>
    /\ UNCHANGED <<clients, status, writable, identifier, clientBuffer, listening,
                   lastRegister>>

NextTeardown ==
    \/ \E c \in Conns : Connect(c) /\ UNCHANGED <<clientVars, calc>>
    \/ \E c \in Conns : \E chunk \in Chunks :
            Data(c, chunk) /\ UNCHANGED <<clientVars, calc>>
    \/ \E c \in Conns : End(c) /\ UNCHANGED <<clientVars, calc>>
    \/ \E c \in Conns : Error(c) /\ UNCHANGED <<clientVars, calc>>
    \/ \E c \in Conns : Close(c) /\ UNCHANGED <<clientVars, calc>>
    \/ \E c \in Conns : LateEnd(c) /\ UNCHANGED <<clientVars, calc>>
    \/ \E c \in Conns : LateError(c) /\ UNCHANGED <<clientVars, calc>>
    \/ \E c \in Conns : LateClose(c) /\ UNCHANGED <<clientVars, calc>>
    \/ Sigint /\ UNCHANGED <<clientVars, calc>>
    \/ Return /\ UNCHANGED <<clientVars, calc>>

SpecTeardown == Init /\ [][NextTeardown]_vars

(***************************************************************************)
(* The byte stream of one connection.  The client writes whole frames;     *)
(* the transport delivers the stream in pieces cut anywhere, several       *)
(* frames in one data event or one frame over several.  MaxFrames bounds   *)
(* the frames a single data event can touch.                               *)
(***************************************************************************)
MaxFrames == 2

StreamConns == {"h:1"}

StreamRecords ==
    {[type |-> "REGISTER", name |-> "bob", public_key |-> [e |-> <<3>>, n |-> <<3, 3>>]],
     [type |-> "LIST_REQUEST"],
     [type |-> "PING"],
     [type |-> "MESSAGE", receiver |-> "h:1",
      encryptedMessage |-> [i \in 1..MaxSymbols |-> i]]}

StreamFrames == {Frame(r) : r \in StreamRecords} \cup {<<Garbage, LF>>}

Streams ==
    UNION {{Concat(fs) : fs \in [1..n -> StreamFrames]} : n \in 1..MaxFrames}

\* every contiguous piece of a stream
Pieces ==
    {SubSeq(st, i, j) : <<st, i, j>> \in
        {x \in Streams \X (1..(3 * MaxFrames)) \X (1..(3 * MaxFrames)) :
            x[2] <= x[3] /\ x[3] <= Len(x[1])}}

\* buf is the beginning of a sequence of whole frames
WellFramed(buf) ==
    \A i \in DOMAIN buf :
        LET first == IF i = 1 THEN TRUE ELSE buf[i - 1] = LF
            then(tok) == IF i = Len(buf) THEN TRUE ELSE buf[i + 1] = tok
        IN  IF buf[i] = LF
            THEN IF i = 1 THEN FALSE
                 ELSE buf[i - 1] = Garbage \/ buf[i - 1].part = 2
            ELSE IF buf[i] = Garbage THEN first /\ then(LF)
            ELSE IF buf[i].part = 1
                 THEN first /\ then([rec |-> buf[i].rec, part |-> 2])
            ELSE /\ IF i = 1 THEN FALSE
                    ELSE buf[i - 1] = [rec |-> buf[i].rec, part |-> 1]
                 /\ then(LF)

\* the next piece of the connection's stream arrives
Receive(c, chunk) ==
    /\ WellFramed(clientBuffer[c] \o chunk)
    /\ Len(clientBuffer[c] \o chunk) <= 3 * MaxFrames + 2
    /\ Data(c, chunk)

NextStream ==
    \/ \E c \in StreamConns : Connect(c) /\ UNCHANGED <<clientVars, calc>>
    \/ \E c \in StreamConns : \E chunk \in Pieces :
            Receive(c, chunk) /\ UNCHANGED <<clientVars, calc>>
    \/ \E c \in StreamConns : End(c) /\ UNCHANGED <<clientVars, calc>>
    \/ \E c \in StreamConns : Error(c) /\ UNCHANGED <<clientVars, calc>>
    \/ \E c \in StreamConns : Close(c) /\ UNCHANGED <<clientVars, calc>>
    \/ Return /\ UNCHANGED <<clientVars, calc>>

SpecStream == Init /\ [][NextStream]_vars

(***************************************************************************)
(* Vocabulary of the properties.  A step is one record processed by the    *)
(* running data handler: `before` is the registry when the record was      *)
(* taken up, `history` the latest REGISTER of every live connection then.  *)
(* A record can be written only to a socket that is writable: Reply(c, d)  *)
(* is what answering connection c with d writes, which is nothing once     *)
(* the broker has ended c's socket in its shutdown.                        *)
(***************************************************************************)
IsRequest(s, ty) == s.ok /\ s.rec.type = ty

Reply(c, d) == IF writable[c] THEN <<[to |-> c, data |-> d]>> ELSE <<>>

\* the receiver named by step s has a registry entry whose socket is writable
Deliverable(s) ==
    /\ MapHas(s.before, s.rec.receiver)
    /\ writable[MapGet(s.before, s.rec.receiver).socket]

Forward(s) ==
    [to |-> s.rec.receiver,
     data |-> [type |-> "INCOMING_MESSAGE",
               sender |-> s.conn,
               senderName |-> NameOf(s.history[s.conn]),
               encryptedMessage |-> s.rec.encryptedMessage]]

DeliveryError(s) ==
    [type |-> "DELIVERY_ERROR",
     recipient |-> s.rec.receiver,
     reason |-> "User is offline or does not exist."]

TypesSent(out) == {out[i].data.type : i \in DOMAIN out}

(***************************************************************************)
(* C1: a MESSAGE from a registered connection S whose receiver names a     *)
(* registry entry R with a writable socket makes the broker send exactly   *)
(* one record, to R: an INCOMING_MESSAGE with sender S's identifier,       *)
(* senderName the name of S's latest REGISTER and the payload of the       *)
(* MESSAGE, symbol for symbol.                                             *)
(***************************************************************************)
C1_ForwardUnchanged ==
    \A i \in DOMAIN steps :
        LET s == steps[i]
        IN  (IsRequest(s, "MESSAGE") /\ MapHas(s.before, s.conn) /\ Deliverable(s))
                => s.sent = <<Forward(s)>>

C1_Witness ==
    \E i \in DOMAIN steps :
        LET s == steps[i]
        IN  /\ IsRequest(s, "MESSAGE") /\ MapHas(s.before, s.conn) /\ Deliverable(s)
            /\ s.rec.receiver # s.conn
            /\ NameOf(s.history[s.conn]) = "bob"
            /\ Len(s.sent) = 1
            /\ s.sent[1].data.encryptedMessage = [k \in 1..MaxSymbols |-> MaxSymbols + 1 - k]

(***************************************************************************)
(* C2: a MESSAGE from a registered connection S whose receiver is not in   *)
(* the registry, or has an entry whose socket is not writable, is          *)
(* answered to S with one DELIVERY_ERROR whose recipient is the requested  *)
(* receiver, and no INCOMING_MESSAGE is sent to any connection.            *)
(***************************************************************************)
C2_DeliveryError ==
    \A i \in DOMAIN steps :
        LET s == steps[i]
        IN  (IsRequest(s, "MESSAGE") /\ MapHas(s.before, s.conn) /\ ~Deliverable(s))
                => /\ "INCOMING_MESSAGE" \notin TypesSent(sent)
                   /\ s.sent = Reply(s.conn, DeliveryError(s))

\* the receiver is registered, but the broker has ended its socket
C2_Witness ==
    \E i \in DOMAIN steps :
        LET s == steps[i]
        IN  /\ IsRequest(s, "MESSAGE") /\ MapHas(s.before, s.conn)
            /\ MapHas(s.before, s.rec.receiver) /\ ~Deliverable(s)
            /\ s.rec.receiver # s.conn
            /\ s.sent = <<[to |-> s.conn, data |-> DeliveryError(s)]>>

(***************************************************************************)
(* C3 as claimed: every MESSAGE processed, on a registered connection or   *)
(* not, produces exactly one of INCOMING_MESSAGE to the receiver and       *)
(* DELIVERY_ERROR to the sender.                                           *)
(***************************************************************************)
C3_AsClaimed ==
    \A i \in DOMAIN steps :
        LET s == steps[i]
        IN  (IsRequest(s, "MESSAGE") /\ writable[s.conn])
                => /\ Len(s.sent) = 1
                   /\ \/ s.sent[1].data.type = "INCOMING_MESSAGE"
                         /\ s.sent[1].to = s.rec.receiver
                      \/ s.sent[1].data.type = "DELIVERY_ERROR"
                         /\ s.sent[1].to = s.conn

(***************************************************************************)
(* C3, amended: a MESSAGE never produces both outcomes.  On a connection   *)
(* that has a registry entry it produces exactly one of them: the          *)
(* INCOMING_MESSAGE to the receiver when the receiver is registered and    *)
(* writable, else the DELIVERY_ERROR to the sender.  On a connection       *)
(* without a registry entry it is ignored: nothing is sent to anyone and   *)
(* the handler returns.                                                    *)
(***************************************************************************)
C3_OneOutcome ==
    \A i \in DOMAIN steps :
        LET s == steps[i]
        IN  IsRequest(s, "MESSAGE")
                => /\ Len(s.sent) <= 1
                   /\ (MapHas(s.before, s.conn) /\ Deliverable(s))
                        => s.sent = <<Forward(s)>>
                   /\ (MapHas(s.before, s.conn) /\ ~Deliverable(s))
                        => s.sent = Reply(s.conn, DeliveryError(s))
                   /\ ~MapHas(s.before, s.conn)
                        => s.sent = <<>> /\ s.returned

\* an unregistered connection writes to a registered, writable one
C3_Witness ==
    \E i \in DOMAIN steps :
        LET s == steps[i]
        IN  /\ IsRequest(s, "MESSAGE")
            /\ ~MapHas(s.before, s.conn)
            /\ MapHas(s.before, s.rec.receiver)
            /\ writable[s.rec.receiver]
            /\ writable[s.conn]
            /\ sent = <<>>

(***************************************************************************)
(* C4: the broker neither queues nor retries.  The INCOMING_MESSAGE        *)
(* records a handler sends are, in order, exactly the forwards of the      *)
(* MESSAGE records it processes whose sender is registered and whose       *)
(* receiver is registered and writable at that moment; every other         *)
(* handler run (a REGISTER of the missing receiver, a disconnection)       *)
(* sends none, so a MESSAGE that was refused is never delivered later.     *)
(***************************************************************************)
C4_NoDeferredDelivery ==
    LET accepted == SelectSeq(steps, LAMBDA s :
                        IsRequest(s, "MESSAGE") /\ MapHas(s.before, s.conn)
                        /\ Deliverable(s))
        incoming == SelectSeq(sent, LAMBDA o : o.data.type = "INCOMING_MESSAGE")
    IN  /\ incoming = [i \in DOMAIN accepted |-> Forward(accepted[i])]
        /\ event.kind # "data" => incoming = <<>>

\* a MESSAGE is refused although its receiver is connected and may still register
C4_Witness ==
    \E i \in DOMAIN steps :
        LET s == steps[i]
        IN  /\ IsRequest(s, "MESSAGE") /\ MapHas(s.before, s.conn)
            /\ s.rec.receiver \in Conns
            /\ status[s.rec.receiver] = "open"
            /\ ~MapHas(s.before, s.rec.receiver)
            /\ sent = <<[to |-> s.conn, data |-> DeliveryError(s)]>>

(***************************************************************************)
(* C5 as claimed: once a registered connection has ended, failed or        *)
(* closed, the registry has no entry under its identifier, no CLIENT_LIST  *)
(* names it and every MESSAGE addressed to it yields DELIVERY_ERROR.       *)
(***************************************************************************)
Gone(c) == identifier[c] = c /\ status[c] \in {"ended", "errored", "closed"}

Listed(out) ==
    UNION {{out[k].data.list[j].identifier : j \in DOMAIN out[k].data.list} :
              k \in {k2 \in DOMAIN out : out[k2].data.type = "CLIENT_LIST"}}

C5_AsClaimed ==
    \A c \in Conns :
        Gone(c) =>
            /\ ~MapHas(clients, c)
            /\ \A i \in DOMAIN steps :
                LET s == steps[i]
                IN  /\ c \notin Listed(s.sent)
                    /\ (IsRequest(s, "MESSAGE") /\ s.rec.receiver = c
                        /\ writable[s.conn])
                         => s.sent = <<[to |-> s.conn, data |-> DeliveryError(s)]>>

(***************************************************************************)
(* C5, amended: once a registered connection has ended, failed or closed,  *)
(* the registry has no entry under its identifier, no CLIENT_LIST names    *)
(* it, and a MESSAGE addressed to it is never forwarded: it yields         *)
(* DELIVERY_ERROR when its sender is registered, and no reply when its     *)
(* sender is not.                                                          *)
(***************************************************************************)
C5_RemovedOnDisconnect ==
    \A c \in Conns :
        Gone(c) =>
            /\ ~MapHas(clients, c)
            /\ \A i \in DOMAIN steps :
                LET s == steps[i]
                IN  /\ ~MapHas(s.before, c)
                    /\ c \notin Listed(s.sent)
                    /\ (IsRequest(s, "MESSAGE") /\ s.rec.receiver = c)
                         => s.sent = IF MapHas(s.before, s.conn)
                                     THEN Reply(s.conn, DeliveryError(s))
                                     ELSE <<>>

\* the other connection, still registered, lists the clients after the close
C5_Witness ==
    \E c \in Conns :
        /\ Gone(c)
        /\ status[c] = "closed"
        /\ \E i \in DOMAIN steps :
              /\ IsRequest(steps[i], "LIST_REQUEST")
              /\ Len(steps[i].sent) = 1
              /\ Len(steps[i].sent[1].data.list) = 1

(***************************************************************************)
(* C6: REGISTER on connection C leaves exactly one registry entry under    *)
(* C's identifier, holding the record's name (empty when omitted) and      *)
(* public key, leaves the other entries as they were, and answers C with   *)
(* REGISTER_ACK carrying C's identifier; repeating the REGISTER leaves     *)
(* the registry unchanged; and what LIST_REQUEST and START_CHAT_REQUEST    *)
(* return for a connection is the name and key of its latest REGISTER.     *)
(***************************************************************************)
C6_RegisterOverwrites ==
    \A i \in DOMAIN steps :
        LET s == steps[i]
            c == s.conn
            m == s.rec
            others(cl) == SelectSeq(cl, LAMBDA en : en.id # c)
        IN  /\ IsRequest(s, "REGISTER") =>
                /\ Cardinality({k \in DOMAIN s.after : s.after[k].id = c}) = 1
                /\ MapGet(s.after, c) =
                       [id |-> c, socket |-> c,
                        name |-> IF "name" \in DOMAIN m THEN m.name ELSE "",
                        public_key |-> m.public_key]
                /\ others(s.after) = others(s.before)
                /\ s.sent = Reply(c, [type |-> "REGISTER_ACK", identifier |-> c])
                /\ s.history[c] = m => s.after = s.before
            /\ \A k \in DOMAIN s.sent :
                LET d == s.sent[k].data
                IN  /\ d.type = "CLIENT_LIST" =>
                        \A j \in DOMAIN d.list :
                            d.list[j].name = NameOf(s.history[d.list[j].identifier])
                    /\ d.type = "START_CHAT_INFO" =>
                        /\ d.name = NameOf(s.history[d.identifier])
                        /\ d.public_key = s.history[d.identifier].public_key

\* a connection registers again under another name and another key
C6_Witness ==
    \E i \in DOMAIN steps :
        LET s == steps[i]
        IN  /\ IsRequest(s, "REGISTER")
            /\ MapHas(s.before, s.conn)
            /\ Len(s.before) = 2
            /\ MapGet(s.before, s.conn).name # NameOf(s.rec)
            /\ MapGet(s.before, s.conn).public_key # s.rec.public_key
            /\ Len(s.after) = 2
            /\ Len(s.sent) = 1

(***************************************************************************)
(* C7: the CLIENT_LIST answering a LIST_REQUEST holds exactly one          *)
(* {identifier, name} pair for every registry entry present when the       *)
(* request is processed, the requester's own included, and nothing else.   *)
(***************************************************************************)
C7_ListIsRegistry ==
    \A i \in DOMAIN steps :
        LET s == steps[i]
        IN  IsRequest(s, "LIST_REQUEST") =>
                /\ Len(s.sent) = IF writable[s.conn] THEN 1 ELSE 0
                /\ \A o \in {s.sent[k] : k \in DOMAIN s.sent} :
                    /\ o.to = s.conn
                    /\ o.data.type = "CLIENT_LIST"
                    /\ Len(o.data.list) = Len(s.before)
                    /\ \A k \in DOMAIN s.before :
                         Cardinality({j \in DOMAIN o.data.list :
                             o.data.list[j] = [identifier |-> s.before[k].id,
                                               name |-> s.before[k].name]}) = 1
                    /\ MapHas(s.before, s.conn) =>
                         \E j \in DOMAIN o.data.list :
                            o.data.list[j].identifier = s.conn

\* both connections are registered and one of them asks for the list
C7_Witness ==
    \E i \in DOMAIN steps :
        LET s == steps[i]
        IN  /\ IsRequest(s, "LIST_REQUEST")
            /\ MapHas(s.before, s.conn)
            /\ Len(s.before) = 2
            /\ Len(s.sent) = 1
            /\ Len(s.sent[1].data.list) = 2

(***************************************************************************)
(* C8: a START_CHAT_REQUEST whose targetIdentifier is the identifier of a  *)
(* registered connection T is answered with one START_CHAT_INFO carrying   *)
(* T's identifier and the name and public key of T's latest REGISTER.      *)
(***************************************************************************)
C8_ExactKeyOfTarget ==
    \A i \in DOMAIN steps :
        LET s == steps[i]
            t == s.rec.targetIdentifier
        IN  (IsRequest(s, "START_CHAT_REQUEST_PK") /\ MapHas(s.before, t)) =>
                s.sent = Reply(s.conn, [type |-> "START_CHAT_INFO",
                                        identifier |-> t,
                                        name |-> NameOf(s.history[t]),
                                        public_key |-> s.history[t].public_key])

\* the requester is registered under another key than the target's
C8_Witness ==
    \E i \in DOMAIN steps :
        LET s == steps[i]
            t == s.rec.targetIdentifier
        IN  /\ IsRequest(s, "START_CHAT_REQUEST_PK")
            /\ MapHas(s.before, t) /\ MapHas(s.before, s.conn)
            /\ t # s.conn
            /\ MapGet(s.before, s.conn).public_key # MapGet(s.before, t).public_key
            /\ Len(s.sent) = 1
            /\ s.sent[1].data.public_key = MapGet(s.before, t).public_key

(***************************************************************************)
(* The entries of registry cl whose name is t and which belong to another  *)
(* connection than c.                                                      *)
(***************************************************************************)
NamedLike(cl, c, t) == {k \in DOMAIN cl : cl[k].id # c /\ cl[k].name = t}

StartChatInfo(en) ==
    [type |-> "START_CHAT_INFO", identifier |-> en.id,
     name |-> en.name, public_key |-> en.public_key]

TargetNotFound(t) ==
    [type |-> "TARGET_NOT_FOUND", identifier |-> t,
     message |-> "Receiver not found or offline."]

(***************************************************************************)
(* C9 as claimed: when targetIdentifier is no registry identifier and      *)
(* exactly one registered connection other than the requester has a name   *)
(* equal to it, the answer is the START_CHAT_INFO of that connection.      *)
(***************************************************************************)
C9_AsClaimed ==
    \A i \in DOMAIN steps :
        LET s == steps[i]
            c == s.conn
            t == s.rec.targetIdentifier
            named == NamedLike(s.before, c, t)
        IN  (/\ IsRequest(s, "START_CHAT_REQUEST_PK")
             /\ ~MapHas(s.before, t)
             /\ Cardinality(named) = 1) =>
                \E k \in named : s.sent = Reply(c, StartChatInfo(s.before[k]))

(***************************************************************************)
(* C9, amended: when targetIdentifier is not empty, is no registry         *)
(* identifier, and exactly one registered connection other than the        *)
(* requester has a name equal to it, the answer is the START_CHAT_INFO of  *)
(* that connection, carrying its identifier, name and public key; an       *)
(* empty targetIdentifier is never resolved by name (it is answered with   *)
(* TARGET_NOT_FOUND even when another connection is registered without a   *)
(* name); an answer never carries the requester's own identifier unless    *)
(* that identifier was asked for; and a targetIdentifier that is a         *)
(* registry identifier is answered with the entry under that identifier,   *)
(* whoever bears it as a name.                                             *)
(***************************************************************************)
C9_ResolveByName ==
    \A i \in DOMAIN steps :
        LET s == steps[i]
            c == s.conn
            t == s.rec.targetIdentifier
            named == NamedLike(s.before, c, t)
        IN  IsRequest(s, "START_CHAT_REQUEST_PK") =>
                /\ (t # "" /\ ~MapHas(s.before, t) /\ Cardinality(named) = 1) =>
                        \E k \in named : s.sent = Reply(c, StartChatInfo(s.before[k]))
                /\ t = "" => s.sent = Reply(c, TargetNotFound(t))
                /\ \A k \in DOMAIN s.sent :
                        (s.sent[k].data.type = "START_CHAT_INFO"
                         /\ s.sent[k].data.identifier = c) => t = c
                /\ MapHas(s.before, t) =>
                        s.sent = Reply(c, StartChatInfo(MapGet(s.before, t)))

\* the requester bears the requested name too, and is the older entry
C9_Witness ==
    \E i \in DOMAIN steps :
        LET s == steps[i]
            c == s.conn
            t == s.rec.targetIdentifier
        IN  /\ IsRequest(s, "START_CHAT_REQUEST_PK")
            /\ t # ""
            /\ ~MapHas(s.before, t)
            /\ Cardinality(NamedLike(s.before, c, t)) = 1
            /\ Len(s.before) = 2
            /\ s.before[1].id = c
            /\ s.before[1].name = t
            /\ Len(s.sent) = 1
            /\ s.sent[1].data.type = "START_CHAT_INFO"
            /\ s.sent[1].data.identifier = s.before[2].id

(***************************************************************************)
(* C10: when targetIdentifier is neither a registry identifier nor the     *)
(* name of a registered connection other than the requester, the answer    *)
(* is one TARGET_NOT_FOUND whose identifier is the string that was asked   *)
(* for, and no START_CHAT_INFO.                                            *)
(***************************************************************************)
C10_NotFoundEchoes ==
    \A i \in DOMAIN steps :
        LET s == steps[i]
            c == s.conn
            t == s.rec.targetIdentifier
        IN  (/\ IsRequest(s, "START_CHAT_REQUEST_PK")
             /\ ~MapHas(s.before, t)
             /\ NamedLike(s.before, c, t) = {}) =>
                s.sent = Reply(c, TargetNotFound(t))

\* only the requester itself bears the requested name
C10_Witness ==
    \E i \in DOMAIN steps :
        LET s == steps[i]
            c == s.conn
            t == s.rec.targetIdentifier
        IN  /\ IsRequest(s, "START_CHAT_REQUEST_PK")
            /\ t = "bob"
            /\ Len(s.before) = 2
            /\ MapHas(s.before, c)
            /\ MapGet(s.before, c).name = "bob"
            /\ NamedLike(s.before, c, t) = {}
            /\ Len(s.sent) = 1
            /\ s.sent[1].data.type = "TARGET_NOT_FOUND"
            /\ s.sent[1].data.identifier = "bob"

(***************************************************************************)
(* The complete lines of a text, in order, and what follows the last       *)
(* line-feed.                                                              *)
(***************************************************************************)
RECURSIVE Lines(_)
Lines(buf) ==
    IF \A i \in DOMAIN buf : buf[i] # LF
    THEN <<>>
    ELSE LET b == CHOOSE i \in DOMAIN buf :
                    buf[i] = LF /\ \A j \in 1..(i - 1) : buf[j] # LF
         IN  <<SubSeq(buf, 1, b - 1)>> \o Lines(SubSeq(buf, b + 1, Len(buf)))

KnownTypes == {"REGISTER", "LIST_REQUEST", "START_CHAT_REQUEST_PK", "MESSAGE"}

\* step i of the running data handler took up the i-th line of its text
TookUp(i) ==
    /\ i <= Len(Lines(event.input))
    /\ LET p == JSONparse(Lines(event.input)[i])
       IN  steps[i].ok = p.ok /\ steps[i].rec = p.value

(***************************************************************************)
(* C11: a record whose type is none of REGISTER, LIST_REQUEST,             *)
(* START_CHAT_REQUEST_PK and MESSAGE is answered with one ERROR whose      *)
(* message names the type; the connection stays open, the registry is      *)
(* left as it was, and the handler goes on: when a complete line follows   *)
(* in the text, it is taken up next, in the same run, on the same          *)
(* registry.                                                               *)
(***************************************************************************)
C11_UnknownType ==
    \A i \in DOMAIN steps :
        LET s == steps[i]
        IN  (s.ok /\ s.rec.type \notin KnownTypes) =>
                /\ s.sent = Reply(s.conn, [type |-> "ERROR",
                                           message |-> <<"Unknown command type: ",
                                                         s.rec.type>>])
                /\ s.after = s.before
                /\ status[s.conn] = "open"
                /\ ~s.returned
                /\ i < Len(Lines(event.input)) =>
                        /\ i < Len(steps)
                        /\ TookUp(i + 1)
                        /\ steps[i + 1].before = s.before

\* a registered connection sends PING and LIST_REQUEST in one chunk
C11_Witness ==
    \E i \in DOMAIN steps :
        /\ i < Len(steps)
        /\ steps[i].ok /\ steps[i].rec.type = "PING"
        /\ MapHas(steps[i].before, steps[i].conn)
        /\ Len(steps[i].sent) = 1
        /\ steps[i + 1].ok /\ steps[i + 1].rec.type = "LIST_REQUEST"
        /\ Len(steps[i + 1].sent) = 1
        /\ Len(steps[i + 1].sent[1].data.list) = 1

(***************************************************************************)
(* C12: a line that does not parse is answered with one ERROR saying       *)
(* 'Invalid message format from client.'; the connection stays open, the   *)
(* registry is left as it was, and the handler goes on: when a complete    *)
(* line follows in the text, it is taken up next, in the same run, on the  *)
(* same registry.                                                          *)
(***************************************************************************)
C12_ParseFailure ==
    \A i \in DOMAIN steps :
        LET s == steps[i]
        IN  ~s.ok =>
                /\ s.sent = Reply(s.conn, [type |-> "ERROR",
                                           message |-> <<"Invalid message format from client.">>])
                /\ s.after = s.before
                /\ status[s.conn] = "open"
                /\ ~s.returned
                /\ i < Len(Lines(event.input)) =>
                        /\ i < Len(steps)
                        /\ TookUp(i + 1)
                        /\ steps[i + 1].before = s.before

\* an unparsable line and a REGISTER arrive in one chunk
C12_Witness ==
    \E i \in DOMAIN steps :
        /\ i < Len(steps)
        /\ ~steps[i].ok
        /\ Len(steps[i].sent) = 1
        /\ steps[i + 1].ok /\ steps[i + 1].rec.type = "REGISTER"
        /\ MapHas(steps[i + 1].after, steps[i + 1].conn)
        /\ status[steps[i].conn] = "open"

(***************************************************************************)
(* What is left of a text once its first n lines are taken away.           *)
(***************************************************************************)
RECURSIVE DropLines(_, _)
DropLines(buf, n) ==
    IF n = 0 \/ \A i \in DOMAIN buf : buf[i] # LF
    THEN buf
    ELSE LET b == CHOOSE i \in DOMAIN buf :
                    buf[i] = LF /\ \A j \in 1..(i - 1) : buf[j] # LF
         IN  DropLines(SubSeq(buf, b + 1, Len(buf)), n - 1)

RECURSIVE SentBy(_)
SentBy(ss) == IF ss = <<>> THEN <<>> ELSE Head(ss).sent \o SentBy(Tail(ss))

\* the running data handler has taken up the first lines of its text, one
\* after the other, and has left the rest of the text in the buffer
RunInOrder ==
    event.kind = "data" =>
        /\ Len(steps) <= Len(Lines(event.input))
        /\ \A i \in DOMAIN steps :
              /\ TookUp(i)
              /\ steps[i].before = IF i = 1 THEN event.registry ELSE steps[i - 1].after
        /\ clientBuffer[event.conn] = DropLines(event.input, Len(steps))
        /\ sent = SentBy(steps)

\* the buffer of a connection changes only in a data handler of that connection
BufferKept ==
    \A c \in Conns :
        clientBuffer'[c] # clientBuffer[c] => (event'.kind = "data" /\ event'.conn = c)

(***************************************************************************)
(* C13: on each connection the records are processed in the order of       *)
(* their line-feeds in the stream.  Every run of the data handler takes    *)
(* up the lines of buffer + chunk from the first on, one after the other,  *)
(* each on the registry the one before left, and writes the replies in     *)
(* the same order; what it has not taken up stays in the buffer in its     *)
(* place, and nothing but a data handler of the connection touches the     *)
(* buffer, so no line is taken up twice and none is passed over.           *)
(***************************************************************************)
C13_InOrder == [](RunInOrder) /\ [][BufferKept]_vars

\* REGISTER and LIST_REQUEST are answered in this order; a started frame stays buffered
C13_Witness ==
    /\ event.kind = "data"
    /\ Len(steps) = 2
    /\ steps[1].rec.type = "REGISTER" /\ steps[2].rec.type = "LIST_REQUEST"
    /\ Len(sent) = 2
    /\ sent[1].data.type = "REGISTER_ACK" /\ sent[2].data.type = "CLIENT_LIST"
    /\ Len(clientBuffer[event.conn]) = 2

(***************************************************************************)
(* Successive data events of one connection: the chunks are appended to    *)
(* the buffer and handled one after the other.                             *)
(***************************************************************************)
RECURSIVE Feed(_, _, _, _, _, _, _)
Feed(c, cl, buf, h, acc, out, chunks) ==
    IF chunks = <<>>
    THEN [clients |-> cl, buffer |-> buf, steps |-> acc, sent |-> out]
    ELSE LET r == ProcessBuffer(c, cl, buf \o Head(chunks), h, <<>>, <<>>)
         IN  Feed(c, r.clients, r.buffer, r.history, acc \o r.steps,
                  out \o r.sent, Tail(chunks))

RecordsOf(ss) == [i \in DOMAIN ss |-> [ok |-> ss[i].ok, rec |-> ss[i].rec]]

(***************************************************************************)
(* C14 as claimed: record handling does not depend on how the transport    *)
(* cuts the stream.  The text the running data handler received in one     *)
(* piece, had it arrived cut in two at any place, would have led to the    *)
(* same records parsed, the same replies, the same registry and the same   *)
(* text left in the buffer.                                                *)
(***************************************************************************)
C14_AsClaimed ==
    event.kind = "data" =>
        \A k \in 1..(Len(event.input) - 1) :
            LET r == Feed(event.conn, event.registry, <<>>, lastRegister, <<>>, <<>>,
                          <<SubSeq(event.input, 1, k),
                            SubSeq(event.input, k + 1, Len(event.input))>>)
            IN  /\ RecordsOf(r.steps) = RecordsOf(steps)
                /\ r.sent = sent
                /\ r.clients = clients
                /\ r.buffer = clientBuffer[event.conn]

(***************************************************************************)
(* The Hamming (7,4) code of src/utils/hamming.js.  A nibble is the        *)
(* sequence <<d3, d5, d6, d7>> of its bits, a word the sequence of its     *)
(* seven bits in position order; a unit is the character code of a word.   *)
(***************************************************************************)
MaxText == 3

\* the bits of one codeword that may be flipped on the way
MaxFlips == 2

Bits == {0, 1}

Nibbles == [1..4 -> Bits]

\* encodeNibble computing p2 over d3, d5 and d6
encodeNibble_WrongParity(nibble) ==
    LET d3 == nibble[1]
        d5 == nibble[2]
        d6 == nibble[3]
        d7 == nibble[4]
    IN  <<(d3 + d5 + d7) % 2, (d3 + d5 + d6) % 2, d3, (d5 + d6 + d7) % 2, d5, d6, d7>>

encodeNibble(nibble) ==
    LET d3 == nibble[1]
        d5 == nibble[2]
        d6 == nibble[3]
        d7 == nibble[4]
        p1 == (d3 + d5 + d7) % 2
        p2 == (d3 + d6 + d7) % 2
        p4 == (d5 + d6 + d7) % 2
    IN  <<p1, p2, d3, p4, d5, d6, d7>>

\* (s4 << 2) | (s2 << 1) | s1 over the received bits
Syndrome(w) ==
    LET s1 == (w[1] + w[3] + w[5] + w[7]) % 2
        s2 == (w[2] + w[3] + w[6] + w[7]) % 2
        s4 == (w[4] + w[5] + w[6] + w[7]) % 2
    IN  4 * s4 + 2 * s2 + s1

\* decodeNibble flipping corrected[syndrome], the bit after the one in error
decodeNibble_OffByOne(receivedWord) ==
    LET syndrome == Syndrome(receivedWord)
        corrected == IF syndrome # 0 /\ syndrome < 7
                     THEN [receivedWord EXCEPT ![syndrome + 1] = 1 - @]
                     ELSE receivedWord
    IN  <<corrected[3], corrected[5], corrected[6], corrected[7]>>

\* decodeNibble reading the data bits without correcting
decodeNibble_NoCorrection(receivedWord) ==
    <<receivedWord[3], receivedWord[5], receivedWord[6], receivedWord[7]>>

decodeNibble(receivedWord) ==
    LET syndrome == Syndrome(receivedWord)
        corrected == IF syndrome # 0
                     THEN [receivedWord EXCEPT ![syndrome] = 1 - @]
                     ELSE receivedWord
    IN  <<corrected[3], corrected[5], corrected[6], corrected[7]>>

\* (code >> b) & 1
BitOf(code, b) == (code \div (2 ^ b)) % 2

\* encoded.reduce((acc, bit, idx) => acc | (bit << (6 - idx)), 0)
CharOf(word) ==
    64 * word[1] + 32 * word[2] + 16 * word[3] + 8 * word[4]
    + 4 * word[5] + 2 * word[6] + word[7]

\* the seven bits pushed for b = 6 down to 0
WordOf(code) == [i \in 1..7 |-> BitOf(code, 7 - i)]

\* encodeMessage appending the low nibble's character before the high nibble's
RECURSIVE encodeMessage_LowFirst(_)
encodeMessage_LowFirst(msg) ==
    IF msg = <<>> THEN <<>>
    ELSE LET code == Head(msg)
             highNibble == <<BitOf(code, 7), BitOf(code, 6), BitOf(code, 5), BitOf(code, 4)>>
             lowNibble == <<BitOf(code, 3), BitOf(code, 2), BitOf(code, 1), BitOf(code, 0)>>
         IN  <<CharOf(encodeNibble(lowNibble)), CharOf(encodeNibble(highNibble))>>
             \o encodeMessage_LowFirst(Tail(msg))

RECURSIVE encodeMessage(_)
encodeMessage(msg) ==
    IF msg = <<>> THEN <<>>
    ELSE LET code == Head(msg)
             highNibble == <<BitOf(code, 7), BitOf(code, 6), BitOf(code, 5), BitOf(code, 4)>>
             lowNibble == <<BitOf(code, 3), BitOf(code, 2), BitOf(code, 1), BitOf(code, 0)>>
             highChar == CharOf(encodeNibble(highNibble))
             lowChar == CharOf(encodeNibble(lowNibble))
         IN  <<highChar, lowChar>> \o encodeMessage(Tail(msg))

\* msg.charCodeAt(i + 1) past the end is NaN, whose bits all read 0
RECURSIVE decodeMessage(_)
decodeMessage(msg) ==
    IF msg = <<>> THEN <<>>
    ELSE LET highCode == msg[1]
             lowCode == IF Len(msg) >= 2 THEN msg[2] ELSE 0
             decodedHigh == decodeNibble(WordOf(highCode))
             decodedLow == decodeNibble(WordOf(lowCode))
             charCodeHigh == 8 * decodedHigh[1] + 4 * decodedHigh[2]
                             + 2 * decodedHigh[3] + decodedHigh[4]
             charCodeLow == 8 * decodedLow[1] + 4 * decodedLow[2]
                            + 2 * decodedLow[3] + decodedLow[4]
         IN  <<16 * charCodeHigh + charCodeLow>>
             \o decodeMessage(IF Len(msg) >= 2 THEN SubSeq(msg, 3, Len(msg)) ELSE <<>>)

(***************************************************************************)
(* Computations with the code: a nibble is encoded, a bit of the word may  *)
(* be flipped on the way, the word is decoded; a text is encoded and the   *)
(* units are decoded.  The first character of a text is any of the 256     *)
(* codes, the following ones are taken from SampleCodes.                   *)
(***************************************************************************)
CharCodes == 0..255

SampleCodes == {0, 104, 255}

TextsFrom(first) ==
    UNION {{<<c>> \o t : c \in first, t \in [1..n -> SampleCodes]} : n \in 0..(MaxText - 1)}

PickNibble(N) ==
    /\ calc = Idle
    /\ calc' = [op |-> "nibble", nibble |-> N]
    /\ UNCHANGED <<brokerVars, clientVars>>

EncodeNibble ==
    /\ calc.op = "nibble"
    /\ calc' = [op |-> "word", nibble |-> calc.nibble,
                word |-> encodeNibble(calc.nibble), flipped |-> {}]
    /\ UNCHANGED <<brokerVars, clientVars>>

FlipBit(i) ==
    /\ calc.op = "word"
    /\ i \notin calc.flipped
    /\ Cardinality(calc.flipped) < MaxFlips
    /\ calc' = [calc EXCEPT !.word[i] = 1 - @, !.flipped = @ \cup {i}]
    /\ UNCHANGED <<brokerVars, clientVars>>

DecodeNibble ==
    /\ calc.op = "word"
    /\ calc' = [op |-> "data", nibble |-> calc.nibble, word |-> calc.word,
                flipped |-> calc.flipped, data |-> decodeNibble(calc.word)]
    /\ UNCHANGED <<brokerVars, clientVars>>

PickText(P) ==
    /\ calc = Idle
    /\ calc' = [op |-> "text", text |-> P]
    /\ UNCHANGED <<brokerVars, clientVars>>

EncodeMessage ==
    /\ calc.op = "text"
    /\ calc' = [op |-> "units", text |-> calc.text, units |-> encodeMessage(calc.text)]
    /\ UNCHANGED <<brokerVars, clientVars>>

DecodeMessage ==
    /\ calc.op = "units"
    /\ calc' = [op |-> "decoded", text |-> calc.text, units |-> calc.units,
                decoded |-> decodeMessage(calc.units)]
    /\ UNCHANGED <<brokerVars, clientVars>>

\* strings of units as they may arrive, of even and of odd length
UnitCodes == 0..127

SampleUnits == {0, 85, 127}

UnitsFrom(first) ==
    UNION {{<<c>> \o rest : c \in first, rest \in [1..(n - 1) -> SampleUnits]} :
              n \in 1..MaxText}

\* a call of decodeMessage: it has no throw statement, and charCodeAt and the
\* shifts raise nothing on a string, so every call returns
decodeMessageCall(msg) == [threw |-> "nothing", returned |-> decodeMessage(msg)]

ReceiveUnits(U) ==
    /\ calc = Idle
    /\ calc' = [op |-> "received", units |-> U]
    /\ UNCHANGED <<brokerVars, clientVars>>

DecodeReceived ==
    /\ calc.op = "received"
    /\ calc' = [op |-> "output", units |-> calc.units,
                threw |-> decodeMessageCall(calc.units).threw,
                returned |-> decodeMessageCall(calc.units).returned]
    /\ UNCHANGED <<brokerVars, clientVars>>

NextHamming ==
    \/ \E N \in Nibbles : PickNibble(N)
    \/ EncodeNibble
    \/ \E i \in 1..7 : FlipBit(i)
    \/ DecodeNibble
    \/ \E P \in TextsFrom(CharCodes) : PickText(P)
    \/ EncodeMessage
    \/ DecodeMessage
    \/ \E U \in UnitsFrom(UnitCodes) : ReceiveUnits(U)
    \/ DecodeReceived

SpecHamming == Init /\ [][NextHamming]_vars

(***************************************************************************)
(* C17: for every nibble N and every position i in 1..7, decodeNibble of   *)
(* encodeNibble(N) with bit i flipped is N.                                *)
(***************************************************************************)
C17_SingleErrorCorrected ==
    (calc.op = "data" /\ Cardinality(calc.flipped) = 1) => calc.data = calc.nibble

\* a data bit, the last of the word, was flipped and put right
C17_Witness ==
    /\ calc.op = "data"
    /\ calc.flipped = {7}
    /\ calc.nibble = <<1, 0, 1, 1>>
    /\ calc.word[7] = 0
    /\ calc.data = <<1, 0, 1, 1>>

(***************************************************************************)
(* C18: for every nibble N the codeword is <<p1, p2, d3, p4, d5, d6, d7>>  *)
(* with p1 = d3 xor d5 xor d7, p2 = d3 xor d6 xor d7 and p4 = d5 xor d6    *)
(* xor d7, its syndrome is 0, and decodeNibble(encodeNibble(N)) is N.      *)
(***************************************************************************)
Xor3(a, b, c) == IF (a = 1) = ((b = 1) = (c = 1)) THEN 1 ELSE 0

C18_RoundTrip ==
    /\ (calc.op = "word" /\ calc.flipped = {}) =>
            LET N == calc.nibble
                w == calc.word
            IN  /\ Len(w) = 7
                /\ <<w[3], w[5], w[6], w[7]>> = N
                /\ w[1] = Xor3(w[3], w[5], w[7])
                /\ w[2] = Xor3(w[3], w[6], w[7])
                /\ w[4] = Xor3(w[5], w[6], w[7])
                /\ Xor3(w[1], w[3], Xor3(w[5], w[7], 0)) = 0
                /\ Xor3(w[2], w[3], Xor3(w[6], w[7], 0)) = 0
                /\ Xor3(w[4], w[5], Xor3(w[6], w[7], 0)) = 0
    /\ (calc.op = "data" /\ calc.flipped = {}) => calc.data = calc.nibble

C18_Witness ==
    /\ calc.op = "data"
    /\ calc.flipped = {}
    /\ calc.nibble = <<1, 0, 1, 1>>
    /\ calc.word = <<0, 1, 1, 0, 0, 1, 1>>
    /\ calc.data = <<1, 0, 1, 1>>

(***************************************************************************)
(* C19: for every text P of character codes 0..255, encodeMessage(P) has   *)
(* twice as many units as P has characters, every unit is in 0..127, the   *)
(* codeword of a character's high nibble comes before that of its low      *)
(* nibble, and decodeMessage(encodeMessage(P)) is P.                       *)
(***************************************************************************)
NibbleOf(v) == <<(v \div 8) % 2, (v \div 4) % 2, (v \div 2) % 2, v % 2>>

C19_MessageRoundTrip ==
    /\ calc.op \in {"units", "decoded"} =>
            /\ Len(calc.units) = 2 * Len(calc.text)
            /\ \A k \in DOMAIN calc.units : calc.units[k] \in 0..127
            /\ \A k \in DOMAIN calc.text :
                  /\ WordOf(calc.units[2 * k - 1]) = encodeNibble(NibbleOf(calc.text[k] \div 16))
                  /\ WordOf(calc.units[2 * k]) = encodeNibble(NibbleOf(calc.text[k] % 16))
    /\ calc.op = "decoded" => calc.decoded = calc.text

\* the text "h", 0xFF, NUL
C19_Witness ==
    /\ calc.op = "decoded"
    /\ calc.text = <<104, 255, 0>>
    /\ Len(calc.units) = 6
    /\ calc.decoded = <<104, 255, 0>>

(***************************************************************************)
(* Number theory and RSA (src/utils/math.js, utils/rsa.js).  BigInt        *)
(* values are integers; a decimal string is the sequence of its digits.    *)
(* MaxPrime bounds the integers the random source yields.                  *)
(***************************************************************************)
MaxPrime == 16

MaxRetries == 1

DefaultPrimeRange == 5000

RetryStep == 500

RECURSIVE isPrimeFrom(_, _)
isPrimeFrom(num, i) ==
    IF i * i > num THEN TRUE
    ELSE IF num % i = 0 \/ num % (i + 2) = 0 THEN FALSE
    ELSE isPrimeFrom(num, i + 6)

isPrime(num) ==
    IF num <= 1 THEN FALSE
    ELSE IF num <= 3 THEN TRUE
    ELSE IF num % 2 = 0 \/ num % 3 = 0 THEN FALSE
    ELSE isPrimeFrom(num, 5)

\* what generatePrime(range) can return: a prime among the integers drawn from [1, range]
generatePrime(range) ==
    {num \in 1..(IF range < MaxPrime THEN range ELSE MaxPrime) : isPrime(num)}

RECURSIVE gcd(_, _)
gcd(a, b) == IF b = 0 THEN a ELSE gcd(b, a % b)

Null == [null |-> TRUE, value |-> 0]

Some(v) == [null |-> FALSE, value |-> v]

\* the while loop of select_e, entered with e = 2
RECURSIVE select_e(_, _)
select_e(phi_n, e) ==
    IF e >= phi_n THEN Null
    ELSE IF gcd(e, phi_n) = 1 THEN Some(e)
    ELSE select_e(phi_n, e + 1)

\* the while loop of mod_inverse
RECURSIVE mod_inverse_loop(_, _, _, _, _)
mod_inverse_loop(a, m_, x0, x1, original_phi) ==
    IF a > 1
    THEN IF m_ = 0 THEN Null
         ELSE LET q == a \div m_
              IN  mod_inverse_loop(m_, a % m_, x1 - q * x0, x0, original_phi)
    ELSE Some(IF x1 < 0 THEN x1 + original_phi ELSE x1)

mod_inverse(e, phi_n) ==
    IF phi_n = 1 THEN Some(0) ELSE mod_inverse_loop(e, phi_n, 0, 1, phi_n)

\* BigInt.prototype.toString and BigInt(string), for values that are not negative
RECURSIVE toString(_)
toString(v) == IF v < 10 THEN <<v>> ELSE toString(v \div 10) \o <<v % 10>>

RECURSIVE BigInt(_)
BigInt(str) ==
    IF Len(str) = 1 THEN str[1]
    ELSE 10 * BigInt(SubSeq(str, 1, Len(str) - 1)) + str[Len(str)]

\* base ** x % n: the power is exact on BigInt, so reducing at every step gives the same value
RECURSIVE PowMod(_, _, _)
PowMod(base, x, n) ==
    IF x = 0 THEN 1 % n
    ELSE LET h == PowMod(base, x \div 2, n)
             sq == (h * h) % n
         IN  IF x % 2 = 1 THEN (sq * (base % n)) % n ELSE sq

encrypt_char(char_code, e_str, n_str) ==
    toString(PowMod(char_code, BigInt(e_str), BigInt(n_str)))

decrypt_char(encrypted_char_code_str, d_str, n_str) ==
    toString(PowMod(BigInt(encrypted_char_code_str), BigInt(d_str), BigInt(n_str)))

\* encrypt_message leaving out the symbols that are not below the modulus
encrypt_message_Checked(msg, public_key) ==
    LET below == SelectSeq(msg, LAMBDA code : code < BigInt(public_key.n))
    IN  [i \in DOMAIN below |-> encrypt_char(below[i], public_key.e, public_key.n)]

encrypt_message(msg, public_key) ==
    [i \in DOMAIN msg |-> encrypt_char(msg[i], public_key.e, public_key.n)]

\* String.fromCharCode(Number(decryptedCode)) keeps the low 16 bits of the code
decrypt_message(encrypted_msg_array, private_key) ==
    [i \in DOMAIN encrypted_msg_array |->
        BigInt(decrypt_char(encrypted_msg_array[i], private_key.d, private_key.n)) % 65536]

\* generate_rsa_keys taking n - 1 for phi_n
KeysFrom_WrongPhi(p_, q_) ==
    LET n == p_ * q_
        phi_n == n - 1
        e == select_e(phi_n, 2)
        d == IF e.null THEN Null ELSE mod_inverse(e.value, phi_n)
    IN  IF e.null \/ d.null THEN Null
        ELSE Some([public_key |-> [e |-> toString(e.value), n |-> toString(n)],
                   private_key |-> [d |-> toString(d.value), n |-> toString(n)]])

\* generate_rsa_keys whose search for e starts at 5
KeysFrom_EFromFive(p_, q_) ==
    LET n == p_ * q_
        phi_n == (p_ - 1) * (q_ - 1)
        e == select_e(phi_n, 5)
        d == IF e.null THEN Null ELSE mod_inverse(e.value, phi_n)
    IN  IF e.null \/ d.null THEN Null
        ELSE Some([public_key |-> [e |-> toString(e.value), n |-> toString(n)],
                   private_key |-> [d |-> toString(d.value), n |-> toString(n)]])

\* generate_rsa_keys once p and q are drawn: the key pair, or Null when it must retry
KeysFrom(p_, q_) ==
    LET n == p_ * q_
        phi_n == (p_ - 1) * (q_ - 1)
        e == select_e(phi_n, 2)
        d == IF e.null THEN Null ELSE mod_inverse(e.value, phi_n)
    IN  IF e.null \/ d.null THEN Null
        ELSE Some([public_key |-> [e |-> toString(e.value), n |-> toString(n)],
                   private_key |-> [d |-> toString(d.value), n |-> toString(n)]])

\* every key pair generate_rsa_keys can return
KeyPairs ==
    {KeysFrom(pq[1], pq[2]).value :
        pq \in {x \in generatePrime(DefaultPrimeRange) \X generatePrime(DefaultPrimeRange) :
                    x[1] # x[2] /\ ~KeysFrom(x[1], x[2]).null}}

(***************************************************************************)
(* Computations with the cipher: key generation draws two primes and       *)
(* starts again with a larger range when they give no key pair; a symbol   *)
(* below the modulus is encrypted with the public half and the result      *)
(* decrypted with the private half.                                        *)
(***************************************************************************)
GenerateKeys ==
    /\ calc = Idle
    /\ calc' = [op |-> "keygen", primeRange |-> DefaultPrimeRange, drawn |-> <<>>]
    /\ UNCHANGED <<brokerVars, clientVars>>

\* the retry calling generate_rsa_keys with the range it was given
DrawPrimes_SameRange(p_, q_) ==
    /\ calc.op = "keygen"
    /\ p_ \in generatePrime(calc.primeRange)
    /\ q_ \in generatePrime(calc.primeRange)
    /\ p_ # q_
    /\ LET k == KeysFrom(p_, q_)
       IN  IF k.null
           THEN calc' = [op |-> "keygen", primeRange |-> calc.primeRange,
                         drawn |-> <<p_, q_>>]
           ELSE calc' = [op |-> "keys", p |-> p_, q |-> q_, keys |-> k.value,
                         primeRange |-> calc.primeRange]
    /\ UNCHANGED <<brokerVars, clientVars>>

\* one run of the body of generate_rsa_keys: p and q are drawn; the key pair is
\* returned, or the call is made again with the range raised (`drawn` notes the
\* primes that gave no key pair)
DrawPrimes(p_, q_) ==
    /\ calc.op = "keygen"
    /\ p_ \in generatePrime(calc.primeRange)
    /\ q_ \in generatePrime(calc.primeRange)
    /\ p_ # q_
    /\ LET k == KeysFrom(p_, q_)
       IN  IF k.null
           THEN /\ calc.primeRange < DefaultPrimeRange + MaxRetries * RetryStep
                /\ calc' = [op |-> "keygen", primeRange |-> calc.primeRange + RetryStep,
                            drawn |-> <<p_, q_>>]
           ELSE calc' = [op |-> "keys", p |-> p_, q |-> q_, keys |-> k.value,
                         primeRange |-> calc.primeRange]
    /\ UNCHANGED <<brokerVars, clientVars>>

PickSymbol(v) ==
    /\ calc.op = "keys"
    /\ v < BigInt(calc.keys.public_key.n)
    /\ calc' = [op |-> "symbol", p |-> calc.p, q |-> calc.q, keys |-> calc.keys, v |-> v]
    /\ UNCHANGED <<brokerVars, clientVars>>

EncryptSymbol ==
    /\ calc.op = "symbol"
    /\ calc' = [op |-> "cipher", p |-> calc.p, q |-> calc.q, keys |-> calc.keys,
                v |-> calc.v,
                c |-> encrypt_char(calc.v, calc.keys.public_key.e, calc.keys.public_key.n)]
    /\ UNCHANGED <<brokerVars, clientVars>>

DecryptSymbol ==
    /\ calc.op = "cipher"
    /\ calc' = [op |-> "plain", p |-> calc.p, q |-> calc.q, keys |-> calc.keys,
                v |-> calc.v, c |-> calc.c,
                out |-> decrypt_char(calc.c, calc.keys.private_key.d,
                                     calc.keys.private_key.n)]
    /\ UNCHANGED <<brokerVars, clientVars>>

\* the sender's path, which compares no unit with the modulus: a unit of an
\* encoded text is encrypted by encrypt_message and decrypted by decrypt_message
PickUnit(v) ==
    /\ calc.op = "keys"
    /\ calc' = [op |-> "unit", keys |-> calc.keys, v |-> v]
    /\ UNCHANGED <<brokerVars, clientVars>>

EncryptUnit ==
    /\ calc.op = "unit"
    /\ calc' = [op |-> "encrypted", keys |-> calc.keys, v |-> calc.v,
                c |-> encrypt_message(<<calc.v>>, calc.keys.public_key)]
    /\ UNCHANGED <<brokerVars, clientVars>>

DecryptUnit ==
    /\ calc.op = "encrypted"
    /\ calc' = [op |-> "decrypted", keys |-> calc.keys, v |-> calc.v, c |-> calc.c,
                out |-> decrypt_message(calc.c, calc.keys.private_key)]
    /\ UNCHANGED <<brokerVars, clientVars>>

NextRSA ==
    \/ GenerateKeys
    \/ \E p_ \in 1..MaxPrime : \E q_ \in 1..MaxPrime : DrawPrimes(p_, q_)
    \/ \E v \in 0..(MaxPrime * MaxPrime) : PickSymbol(v)
    \/ EncryptSymbol
    \/ DecryptSymbol
    \/ \E v \in UnitCodes : PickUnit(v)
    \/ EncryptUnit
    \/ DecryptUnit

SpecRSA == Init /\ [][NextRSA]_vars

\* the random draws are fair: a draw of two primes that give a key pair, possible
\* again and again, is made in the end
DrawsKeyPair ==
    \E p_ \in 1..MaxPrime : \E q_ \in 1..MaxPrime :
        DrawPrimes(p_, q_) /\ calc'.op = "keys"

SpecRSAFair == SpecRSA /\ SF_vars(DrawsKeyPair)

(***************************************************************************)
(* C20: for every key pair key generation returns and every symbol v with  *)
(* 0 <= v < n, decrypting the encryption of v gives v.                     *)
(***************************************************************************)
C20_DecryptInvertsEncrypt ==
    calc.op = "plain" =>
        /\ calc.out = toString(calc.v)
        /\ BigInt(calc.out) = calc.v

\* a symbol that shares a factor with the modulus
C20_Witness ==
    /\ calc.op = "plain"
    /\ calc.p = 11 /\ calc.q = 13
    /\ calc.v = 33
    /\ calc.c # calc.out
    /\ calc.out = <<3, 3>>

(***************************************************************************)
(* The client (src/client.js): what it writes to the broker and what it    *)
(* does with the records the broker sends.  Characters are their codes.    *)
(***************************************************************************)
\* registerWithServer sending the whole key pair
RegisterRecord_WholeKeys(m_) ==
    [type |-> "REGISTER", name |-> m_.name, public_key |-> m_.keys]

RegisterRecord(m_) ==
    [type |-> "REGISTER", name |-> m_.name, public_key |-> m_.keys.public_key]

ListRecord == [type |-> "LIST_REQUEST"]

StartChatRecord(targetIdentifier) ==
    [type |-> "START_CHAT_REQUEST_PK", targetIdentifier |-> targetIdentifier]

MessageRecord(m_, text) ==
    [type |-> "MESSAGE",
     receiver |-> m_.receiver.identifier,
     encryptedMessage |-> encrypt_message(encodeMessage(text), m_.receiver.public_key)]

\* processServerData: the new ME and the chat lines displayed
processServerData(m_, serverMessage) ==
    CASE serverMessage.type = "REGISTER_ACK" ->
            [me |-> [m_ EXCEPT !.identifier = serverMessage.identifier], shown |-> <<>>]
      [] serverMessage.type = "START_CHAT_INFO" ->
            [me |-> [m_ EXCEPT !.receiver = [identifier |-> serverMessage.identifier,
                                             name |-> serverMessage.name,
                                             public_key |-> serverMessage.public_key]],
             shown |-> <<>>]
      [] serverMessage.type = "INCOMING_MESSAGE" ->
            IF m_.keys = NoKeys
            THEN [me |-> m_, shown |-> <<>>]
            ELSE [me |-> m_,
                  shown |-> <<[from |-> serverMessage.sender,
                               text |-> decodeMessage(
                                   decrypt_message(serverMessage.encryptedMessage,
                                                   m_.keys.private_key))]>>]
      [] OTHER -> [me |-> m_, shown |-> <<>>]

\* the client's data handler over the records the broker wrote to it, in order
RECURSIVE Delivered(_, _, _, _)
Delivered(c, m_, shown, out) ==
    IF out = <<>> THEN [me |-> m_, shown |-> shown]
    ELSE IF Head(out).to # c THEN Delivered(c, m_, shown, Tail(out))
    ELSE LET r == processServerData(m_, Head(out).data)
         IN  Delivered(c, r.me, shown \o r.shown, Tail(out))

(***************************************************************************)
(* Two clients and the broker.  A client connects (generating its key      *)
(* pair the first time), registers, lists, resolves a partner and sends    *)
(* chat texts; the broker handles each record; what the broker wrote is    *)
(* delivered to the clients before the next record is sent.                *)
(***************************************************************************)
ChatName(c) == IF c = "h:2" THEN "bob" ELSE ""

ChatTargets == Conns \cup {"bob"}

ChatTexts == {<<c>> : c \in SampleCodes} \cup {<<104, 105>>}

ChatConnect(c, k) ==
    /\ Connect(c)
    /\ me' = [me EXCEPT ![c] = [@ EXCEPT !.isConnected = TRUE,
                                         !.keys = IF @ = NoKeys THEN k ELSE @,
                                         !.name = ChatName(c)]]
    /\ typed' = <<>>
    /\ display' = <<>>
    /\ UNCHANGED <<sockets, calc>>

ChatRegister(c) ==
    /\ me[c].isConnected
    /\ me[c].identifier = ""
    /\ Data(c, Frame(RegisterRecord(me[c])))
    /\ typed' = <<>>
    /\ display' = <<>>
    /\ UNCHANGED <<me, sockets, calc>>

ChatList(c) ==
    /\ me[c].isConnected
    /\ Data(c, Frame(ListRecord))
    /\ typed' = <<>>
    /\ display' = <<>>
    /\ UNCHANGED <<me, sockets, calc>>

ChatStart(c, targetIdentifier) ==
    /\ me[c].isConnected
    /\ targetIdentifier # ""
    /\ targetIdentifier # me[c].identifier
    /\ Data(c, Frame(StartChatRecord(targetIdentifier)))
    /\ typed' = <<>>
    /\ display' = <<>>
    /\ UNCHANGED <<me, sockets, calc>>

ChatMessage(c, text) ==
    /\ me[c].isConnected
    /\ me[c].receiver # NoReceiver
    /\ me[c].keys # NoKeys
    /\ Data(c, Frame(MessageRecord(me[c], text)))
    /\ typed' = <<[by |-> c, to |-> me[c].receiver.identifier, text |-> text]>>
    /\ display' = <<>>
    /\ UNCHANGED <<me, sockets, calc>>

ChatDeliver ==
    /\ Return
    /\ me' = [c \in Conns |-> Delivered(c, me[c], <<>>, sent).me]
    /\ display' = LET lines(c) == Delivered(c, me[c], <<>>, sent).shown
                  IN  [i \in DOMAIN lines("h:1") |->
                          [at |-> "h:1", from |-> lines("h:1")[i].from,
                           text |-> lines("h:1")[i].text]]
                      \o [i \in DOMAIN lines("h:2") |->
                          [at |-> "h:2", from |-> lines("h:2")[i].from,
                           text |-> lines("h:2")[i].text]]
    /\ UNCHANGED <<typed, sockets, calc>>

NextChat ==
    \/ \E c \in Conns : \E k \in KeyPairs : ChatConnect(c, k)
    \/ \E c \in Conns : ChatRegister(c)
    \/ \E c \in Conns : ChatList(c)
    \/ \E c \in Conns : \E t \in ChatTargets : ChatStart(c, t)
    \/ \E c \in Conns : \E text \in ChatTexts : ChatMessage(c, text)
    \/ ChatDeliver

SpecChat == Init /\ [][NextChat]_vars

(***************************************************************************)
(* Sessions: a client disconnects or loses its connection, the broker      *)
(* sees the end or the error and then the close, and the client connects   *)
(* again from the same address and port with a new socket.                 *)
(***************************************************************************)
\* resetClientState dropping the keys and the name whatever it is told
resetClientState_Forgets(m_, preserveKeysAndName) == INITIAL_ME_STATE

resetClientState(m_, preserveKeysAndName) ==
    [INITIAL_ME_STATE EXCEPT
        !.keys = IF preserveKeysAndName THEN m_.keys ELSE NoKeys,
        !.name = IF preserveKeysAndName THEN m_.name ELSE ""]

\* two of the key pairs key generation can return
SessionKeyPairs == {KeysFrom(7, 13).value, KeysFrom(11, 13).value}

\* handleDisconnectCommand: the client ends its socket, the broker's end handler
\* runs, and the client resets its state when the end comes back
ChatDisconnect(c) ==
    /\ me[c].isConnected
    /\ End(c)
    /\ me' = [me EXCEPT ![c] = resetClientState(me[c], TRUE)]
    /\ typed' = <<>>
    /\ display' = <<>>
    /\ UNCHANGED <<sockets, calc>>

\* the connection breaks: error handlers on both sides
ChatDrop(c) ==
    /\ me[c].isConnected
    /\ Error(c)
    /\ me' = [me EXCEPT ![c] = resetClientState(me[c], TRUE)]
    /\ typed' = <<>>
    /\ display' = <<>>
    /\ UNCHANGED <<sockets, calc>>

ChatClosed(c) ==
    /\ Close(c)
    /\ typed' = <<>>
    /\ display' = <<>>
    /\ UNCHANGED <<me, sockets, calc>>

\* handleConnectCommand after a connection that is closed: a new socket, with
\* the identifier of the old one, no socket.identifier and an empty buffer
ChatReconnect(c, k) ==
    /\ event.kind = "idle"
    /\ listening
    /\ status[c] = "closed"
    /\ ~me[c].isConnected
    /\ status' = [status EXCEPT ![c] = "open"]
    /\ writable' = [writable EXCEPT ![c] = TRUE]
    /\ identifier' = [identifier EXCEPT ![c] = ""]
    /\ clientBuffer' = [clientBuffer EXCEPT ![c] = <<>>]
    /\ event' = [kind |-> "connect", conn |-> c, again |-> TRUE]
    /\ steps' = <<>>
    /\ sent' = <<>>
    /\ me' = [me EXCEPT ![c] = [@ EXCEPT !.isConnected = TRUE,
                                         !.keys = IF @ = NoKeys THEN k ELSE @,
                                         !.name = ChatName(c)]]
    /\ typed' = <<>>
    /\ display' = <<>>
    /\ UNCHANGED <<clients, listening, lastRegister, sockets, calc>>

NextSession ==
    \/ \E c \in Conns : \E k \in SessionKeyPairs : ChatConnect(c, k)
    \/ \E c \in Conns : ChatRegister(c)
    \/ \E c \in Conns : \E t \in ChatTargets : ChatStart(c, t)
    \/ \E c \in Conns : \E text \in ChatTexts : ChatMessage(c, text)
    \/ ChatDeliver
    \/ \E c \in Conns : ChatDisconnect(c)
    \/ \E c \in Conns : ChatDrop(c)
    \/ \E c \in Conns : ChatClosed(c)
    \/ \E c \in Conns : \E k \in SessionKeyPairs : ChatReconnect(c, k)

SpecSession == Init /\ [][NextSession]_vars

(***************************************************************************)
(* Claims about the end-to-end path between two clients.                   *)
(***************************************************************************)
\* the text a registered client typed for a registered partner has been
\* handled by the broker and delivered
TextDelivered ==
    /\ typed # <<>>
    /\ event.kind = "idle"
    /\ MapHas(clients, typed[1].by)
    /\ MapHas(clients, typed[1].to)

\* what the addressee displays when the typed text comes through unchanged
ShownAsTyped ==
    display = <<[at |-> typed[1].to, from |-> typed[1].by, text |-> typed[1].text]>>

\* every unit of the encoded text is below the addressee's modulus
UnitsBelowModulus ==
    LET units == encodeMessage(typed[1].text)
        n == BigInt(me[typed[1].to].keys.public_key.n)
    IN  \A i \in DOMAIN units : units[i] < n

\* C15: whenever a registered client that resolved a registered partner sends
\* a text, the partner decrypts and decodes exactly the text that was typed,
\* whatever key pairs key generation returned to the two clients
C15_AsClaimed == TextDelivered => ShownAsTyped

\* the path is intact whenever the encoded units are all below the partner's
\* modulus: the partner then displays exactly the text that was typed
IntactBelowModulus == (TextDelivered /\ UnitsBelowModulus) => ShownAsTyped

\* a two-character text has been delivered intact under the modulus 143
DeliveredIntact ==
    /\ TextDelivered
    /\ UnitsBelowModulus
    /\ typed[1].text = <<104, 105>>
    /\ me[typed[1].to].keys.public_key.n = <<1, 4, 3>>
    /\ ShownAsTyped

\* the fields each record a client writes consists of
ClientFields(type) ==
    CASE type = "REGISTER" -> {"type", "name", "public_key"}
      [] type = "LIST_REQUEST" -> {"type"}
      [] type = "START_CHAT_REQUEST_PK" -> {"type", "targetIdentifier"}
      [] type = "MESSAGE" -> {"type", "receiver", "encryptedMessage"}
      [] OTHER -> {}

\* the client ME with its private key replaced by another one
WithPrivateKey(m_, k) == [m_ EXCEPT !.keys = [@ EXCEPT !.private_key = k.private_key]]

\* C16: every record a client writes has exactly the fields of its type; a
\* REGISTER record carries the public half (e, n) of the key pair and nothing
\* of the private half; a MESSAGE record carries the encrypted units of the
\* encoded text and not the text; none of the records depends on the private
\* key; the broker stores and forwards only what it was sent
C16_PrivateStaysHome ==
    /\ event.kind = "data" =>
          LET c == event.conn
              r == event.input[1].rec
          IN  /\ DOMAIN r = ClientFields(r.type)
              /\ r.type = "REGISTER" =>
                    /\ DOMAIN r.public_key = {"e", "n"}
                    /\ r.public_key = me[c].keys.public_key
                    /\ \A k \in KeyPairs : RegisterRecord(WithPrivateKey(me[c], k)) = r
              /\ r.type = "MESSAGE" =>
                    /\ typed # <<>>
                    /\ r.encryptedMessage =
                          encrypt_message(encodeMessage(typed[1].text),
                                          me[c].receiver.public_key)
                    /\ \A k \in KeyPairs :
                          MessageRecord(WithPrivateKey(me[c], k), typed[1].text) = r
                    /\ \A i \in DOMAIN sent :
                          sent[i].data.type = "INCOMING_MESSAGE" =>
                             /\ DOMAIN sent[i].data =
                                   {"type", "sender", "senderName", "encryptedMessage"}
                             /\ sent[i].data.encryptedMessage = r.encryptedMessage
    /\ \A id \in Conns :
          MapHas(clients, id) =>
             /\ DOMAIN MapGet(clients, id).public_key = {"e", "n"}
             /\ MapGet(clients, id).public_key = me[id].keys.public_key

\* a client whose public and private exponents differ has registered and has
\* sent a text to its partner, which the broker forwarded
C16_Witness ==
    /\ event.kind = "data"
    /\ event.input[1].rec.type = "MESSAGE"
    /\ me[event.conn].keys.private_key.d # me[event.conn].keys.public_key.e
    /\ typed # <<>>
    /\ typed[1].text = <<104, 105>>
    /\ \E i \in DOMAIN sent : sent[i].data.type = "INCOMING_MESSAGE"
    /\ \A id \in Conns : MapHas(clients, id)

(***************************************************************************)
(* Claims about the registry as a whole.                                   *)
(***************************************************************************)
\* the entry a REGISTER record of connection c makes
EntryOf(c, m) == [id |-> c, socket |-> c, name |-> NameOf(m), public_key |-> m.public_key]

\* C21: in every state the registry holds at most one entry per connection
\* identifier; every entry is keyed by the connection whose socket it stores,
\* that connection has sent REGISTER and has neither ended nor errored, and
\* the entry is, whole, the name and public key of the latest REGISTER record
\* of that connection
C21_RegistryWellFormed ==
    /\ \A i, j \in DOMAIN clients : clients[i].id = clients[j].id => i = j
    /\ \A i \in DOMAIN clients :
          LET c == clients[i].id
          IN  /\ c \in Conns
              /\ clients[i].socket = c
              /\ identifier[c] = c
              /\ status[c] = "open"
              /\ lastRegister[c] # NoRegister
              /\ clients[i] = EntryOf(c, lastRegister[c])

\* both connections registered, one of them twice under different names and
\* keys; the other has ended since
C21_Witness ==
    /\ Len(clients) = 1
    /\ clients[1].id = "h:1"
    /\ clients[1].name = "bob"
    /\ clients[1].public_key = [e |-> <<7>>, n |-> <<5, 5>>]
    /\ identifier["h:2"] = "h:2"
    /\ status["h:2"] = "ended"
    /\ event.kind = "data"
    /\ MapHas(event.registry, "h:1")
    /\ MapGet(event.registry, "h:1").public_key = [e |-> <<3>>, n |-> <<3, 3>>]
    /\ MapGet(event.registry, "h:1").name = ""

\* what the broker holds for connection d is the same before and after a step
Untouched(d) ==
    /\ MapHas(clients', d) <=> MapHas(clients, d)
    /\ MapHas(clients, d) => MapGet(clients', d) = MapGet(clients, d)
    /\ status'[d] = status[d]
    /\ writable'[d] = writable[d]
    /\ identifier'[d] = identifier[d]
    /\ clientBuffer'[d] = clientBuffer[d]
    /\ lastRegister'[d] = lastRegister[d]

\* a handler of connection c has just run: data, end, error or close
HandlerRan ==
    /\ event.kind = "idle"
    /\ event'.kind \in {"data", "end", "error", "close"}

\* C22: a handler of connection C (a record of any kind, well formed or not,
\* or its end, error or close) leaves every other connection's registry entry,
\* socket and buffer as they were and leaves the broker listening; a record
\* other than REGISTER leaves the whole registry as it was
C22_Isolated ==
    [][HandlerRan =>
          /\ \A d \in Conns \ {event'.conn} : Untouched(d)
          /\ listening' = listening
          /\ event'.kind = "data" =>
                /\ \A i \in DOMAIN steps' :
                      ~IsRequest(steps'[i], "REGISTER") =>
                          steps'[i].after = steps'[i].before
                /\ (\A i \in DOMAIN steps' : ~IsRequest(steps'[i], "REGISTER"))
                       => clients' = clients]_vars

\* a registered connection has dropped with an error while the other one is
\* registered: its own entry is gone, the other's is there
C22_Witness ==
    /\ event.kind = "error"
    /\ identifier[event.conn] = event.conn
    /\ ~MapHas(clients, event.conn)
    /\ \E d \in Conns \ {event.conn} : MapHas(clients, d) /\ status[d] = "open"

(***************************************************************************)
(* Claims about input the decoder was not made for.                        *)
(***************************************************************************)
\* C23: decodeMessage applied to a string with an odd number of units fails
\* with a MalformedEncoding error and returns no string
C23_AsClaimed ==
    (calc.op = "output" /\ Len(calc.units) % 2 = 1)
        => calc.threw = "MalformedEncoding"

(***************************************************************************)
(* Claims about key generation.                                            *)
(***************************************************************************)
MaxCandidate == 60

\* x is a prime number; a and b have no common divisor but 1
IsPrimeNumber(x) == x > 1 /\ \A k \in 2..(x - 1) : x % k # 0

Coprime(a, b) == \A k \in 2..a : ~(a % k = 0 /\ b % k = 0)

\* C24: every key pair key generation returns comes from two distinct primes
\* p and q of [1, primeRange]; both halves carry n = p * q; with
\* phi = (p - 1)(q - 1), e is the smallest integer of [2, phi) coprime with
\* phi, d lies in [0, phi) and e * d is 1 modulo phi.  What generatePrime
\* accepts is exactly the primes, also beyond the range drawn from here
C24_KeyPairInvariants ==
    /\ \A num \in 1..MaxCandidate : isPrime(num) <=> IsPrimeNumber(num)
    /\ calc.op = "keys" =>
          LET n == BigInt(calc.keys.public_key.n)
              e == BigInt(calc.keys.public_key.e)
              d == BigInt(calc.keys.private_key.d)
              phi == (calc.p - 1) * (calc.q - 1)
          IN  /\ calc.p # calc.q
              /\ IsPrimeNumber(calc.p) /\ calc.p \in 1..calc.primeRange
              /\ IsPrimeNumber(calc.q) /\ calc.q \in 1..calc.primeRange
              /\ n = calc.p * calc.q
              /\ calc.keys.private_key.n = calc.keys.public_key.n
              /\ DOMAIN calc.keys.public_key = {"e", "n"}
              /\ DOMAIN calc.keys.private_key = {"d", "n"}
              /\ e \in 2..(phi - 1)
              /\ Coprime(e, phi)
              /\ \A x \in 2..(e - 1) : ~Coprime(x, phi)
              /\ d \in 0..(phi - 1)
              /\ (e * d) % phi = 1

\* the primes 7 and 13 have been drawn: phi = 72, the smallest e is 5 (2, 3
\* and 4 share a factor with 72) and d = 29
C24_Witness ==
    /\ calc.op = "keys"
    /\ calc.p = 7
    /\ calc.q = 13
    /\ calc.keys.public_key.e = <<5>>
    /\ calc.keys.private_key.d = <<2, 9>>

\* p and q give an e of [2, phi) coprime with phi that has an inverse d modulo phi
HasExponents(p_, q_) ==
    LET phi == (p_ - 1) * (q_ - 1)
    IN  \E e \in 2..(phi - 1) :
            /\ Coprime(e, phi)
            /\ \E d \in 0..(phi - 1) : (e * d) % phi = 1

\* a decimal string: at least one digit, nothing but digits
IsDecimal(str) ==
    /\ DOMAIN str = 1..Len(str)
    /\ Len(str) >= 1
    /\ \A i \in DOMAIN str : str[i] \in 0..9

\* one run of the body has ended in a new call
Restarted == calc.op = "keygen" /\ calc'.op = "keygen" /\ calc' # calc

C26_BeyondModulus ==
    LET n == BigInt(calc.keys.public_key.n)
    IN  /\ (calc.op \in {"encrypted", "decrypted"} /\ calc.v >= n) =>
              /\ Len(calc.c) = 1
              /\ IsDecimal(calc.c[1])
              /\ BigInt(calc.c[1]) \in 0..(n - 1)
        /\ (calc.op = "decrypted" /\ calc.v >= n) =>
              /\ calc.out = <<calc.v % n>>
              /\ calc.out[1] # calc.v

\* the unit 104 has gone through the modulus 10 and has come out as 4
C26_Witness ==
    /\ calc.op = "decrypted"
    /\ calc.keys.public_key.n = <<1, 0>>
    /\ calc.v = 104
    /\ calc.out = <<4>>

TeardownRan ==
    /\ event.kind = "idle"
    /\ event'.kind \in {"end", "error", "close"}

\* C28: an end, error or close event of a connection that has already had
\* one of them, in whatever order and however often, leaves the registry as
\* the first one left it; so does every such event of a connection that
\* never registered
C28_TeardownIdempotent ==
    [][TeardownRan =>
          /\ status[event'.conn] # "open" => clients' = clients
          /\ identifier[event'.conn] = "" => clients' = clients]_vars

\* the end handler has run again for a connection that had registered and
\* is closed, while the other connection is in the registry
C28_Witness ==
    /\ event.kind = "end"
    /\ status[event.conn] = "closed"
    /\ identifier[event.conn] = event.conn
    /\ clients # <<>>

(***************************************************************************)
(* Claims about a client's session.                                        *)
(***************************************************************************)
\* C29: a client has no key pair until it first connects and registers; the
\* key pair it then gets stays the same through every later step (disconnect,
\* broken connection, reconnect); every REGISTER it writes carries the public
\* half of that pair, and a client that displays a decrypted message holds
\* the pair whose public half the broker has for it
C29_KeysStable ==
    /\ [][\A c \in Conns :
             /\ me[c].keys # NoKeys => me'[c].keys = me[c].keys
             /\ (me[c].keys = NoKeys /\ me'[c].keys # NoKeys) =>
                    (event'.kind = "connect" /\ event'.conn = c)]_vars
    /\ [](event.kind = "data" =>
             LET r == event.input[1].rec
             IN  r.type = "REGISTER" => r.public_key = me[event.conn].keys.public_key)
    /\ [](\A i \in DOMAIN display :
             /\ MapHas(clients, display[i].at)
             /\ MapGet(clients, display[i].at).public_key
                    = me[display[i].at].keys.public_key)

\* a client that has its key pair from an earlier connection has connected
\* again, while the other client is registered and in a chat with it
C29_Witness ==
    /\ event.kind = "connect"
    /\ "again" \in DOMAIN event
    /\ event.conn = "h:1"
    /\ me["h:1"].isConnected
    /\ me["h:1"].keys = KeysFrom(11, 13).value
    /\ me["h:2"].keys = KeysFrom(7, 13).value
    /\ MapHas(clients, "h:2")
    /\ me["h:2"].receiver # NoReceiver

(***************************************************************************)
(* Claims about what a data event leaves in the receive buffer.            *)
(***************************************************************************)
\* C30: when a data handler has run, the receive buffer of its connection
\* holds no line-feed: every complete record that has arrived has been
\* processed, whatever records came before it in the chunk
C30_AsClaimed ==
    event.kind = "data" =>
        \A i \in DOMAIN clientBuffer[event.conn] : clientBuffer[event.conn][i] # LF

\* the buffer is drained whenever no MESSAGE of an unregistered sender made
\* the handler return
DrainedUnlessReturned ==
    (event.kind = "data" /\ \A i \in DOMAIN steps : ~steps[i].returned) =>
        \A i \in DOMAIN clientBuffer[event.conn] : clientBuffer[event.conn][i] # LF

(***************************************************************************)
(* The client's sockets.  handleConnectCommand makes a socket, stores it   *)
(* in ME.socket and attaches its handlers; the handlers of every socket    *)
(* the client has made read and write the one global ME.  A socket is      *)
(* "connecting" until its connect callback runs, "open" after it,          *)
(* "ending" once the client has called end() on it, "ended" after its      *)
(* 'end' event, "failed" after its 'error' event and "closed" after its    *)
(* 'close' event.  The broker is the environment: it acknowledges, answers *)
(* and ends connections as it likes, and events of different sockets come  *)
(* in any order.                                                           *)
(***************************************************************************)
MaxSockets == 3

SocketClients == {"h:1"}

SocketsOf(c) == DOMAIN sockets[c].state

\* the identifier the broker gives the connection of socket s: its address and port
SocketIdentifier(s) == ToString(s)

\* what the broker can write to the client on socket s
ServerMessages(s) ==
    {[type |-> "REGISTER_ACK", identifier |-> SocketIdentifier(s)],
     [type |-> "START_CHAT_INFO", identifier |-> "h:2", name |-> "bob",
      public_key |-> KeysFrom(7, 13).value.public_key]}

\* resetClientState, for ME.socket: ME is replaced by a copy of ME_INIT, whose
\* socket is null, before ME.socket is tested, so no socket is destroyed
resetSocket(k) == [k EXCEPT !.current = 0]

\* `if (ME.isConnected) resetClientState()` with socket s in its new state
WhenConnectedReset(c, s, to) ==
    /\ me' = [me EXCEPT ![c] = IF @.isConnected THEN resetClientState(@, TRUE) ELSE @]
    /\ sockets' = [sockets EXCEPT ![c] =
                      [current |-> IF me[c].isConnected THEN resetSocket(@).current
                                   ELSE @.current,
                       state |-> [@.state EXCEPT ![s] = to]]]

handleConnectCommand(c) ==
    /\ ~me[c].isConnected
    /\ Len(sockets[c].state) < MaxSockets
    /\ sockets' = [sockets EXCEPT ![c] =
                      [current |-> Len(@.state) + 1,
                       state |-> Append(@.state, "connecting")]]
    /\ UNCHANGED <<brokerVars, me, typed, display, calc>>

\* the connect callback of socket s and registerWithServer, the name answered at once
Connected(c, s, k) ==
    /\ sockets[c].state[s] = "connecting"
    /\ sockets' = [sockets EXCEPT ![c].state[s] = "open"]
    /\ me' = [me EXCEPT ![c] = [@ EXCEPT !.isConnected = TRUE,
                                         !.keys = IF @ = NoKeys THEN k ELSE @,
                                         !.name = ChatName(c)]]
    /\ UNCHANGED <<brokerVars, typed, display, calc>>

handleDisconnectCommand(c) ==
    /\ me[c].isConnected
    /\ IF sockets[c].current # 0
       THEN /\ sockets' = [sockets EXCEPT ![c].state[sockets[c].current] =
                              IF @ \in {"connecting", "open"} THEN "ending" ELSE @]
            /\ UNCHANGED me
       ELSE /\ me' = [me EXCEPT ![c] = resetClientState(@, TRUE)]
            /\ sockets' = [sockets EXCEPT ![c] = resetSocket(@)]
    /\ UNCHANGED <<brokerVars, typed, display, calc>>

\* the data handler of socket s with one record of the broker
SocketData(c, s, serverMessage) ==
    /\ sockets[c].state[s] \in {"open", "ending"}
    /\ me' = [me EXCEPT ![c] = processServerData(@, serverMessage).me]
    /\ UNCHANGED <<brokerVars, typed, display, sockets, calc>>

SocketEnd(c, s) ==
    /\ sockets[c].state[s] \in {"open", "ending"}
    /\ WhenConnectedReset(c, s, "ended")
    /\ UNCHANGED <<brokerVars, typed, display, calc>>

SocketError(c, s) ==
    /\ sockets[c].state[s] \in {"connecting", "open", "ending", "ended"}
    /\ WhenConnectedReset(c, s, "failed")
    /\ UNCHANGED <<brokerVars, typed, display, calc>>

SocketClose(c, s) ==
    /\ sockets[c].state[s] \in {"ended", "failed"}
    /\ WhenConnectedReset(c, s, "closed")
    /\ UNCHANGED <<brokerVars, typed, display, calc>>

NextSockets ==
    \/ \E c \in SocketClients : handleConnectCommand(c)
    \/ \E c \in SocketClients : \E s \in SocketsOf(c) : \E k \in SessionKeyPairs :
            Connected(c, s, k)
    \/ \E c \in SocketClients : handleDisconnectCommand(c)
    \/ \E c \in SocketClients : \E s \in SocketsOf(c) :
            \E serverMessage \in ServerMessages(s) : SocketData(c, s, serverMessage)
    \/ \E c \in SocketClients : \E s \in SocketsOf(c) : SocketEnd(c, s)
    \/ \E c \in SocketClients : \E s \in SocketsOf(c) : SocketError(c, s)
    \/ \E c \in SocketClients : \E s \in SocketsOf(c) : SocketClose(c, s)

SpecSockets == Init /\ [][NextSockets]_vars

(***************************************************************************)
(* Claims about events of a socket the client has replaced.                *)
(***************************************************************************)
\* socket s of client c belongs to a connection that has ended, the client has
\* connected again with a later socket, and this step is an event of s
LateEvent(c, s) ==
    /\ s < sockets[c].current
    /\ sockets[c].state[s] = "ended"
    /\ sockets[c].state[sockets[c].current] = "open"
    /\ me[c].isConnected
    /\ sockets'[c].state[s] # sockets[c].state[s]

\* C31: once the client has disconnected and connected again, an end, close
\* or error event of the previous socket leaves isConnected, the current
\* socket, the identifier and the chat partner of the new connection unchanged
C31_AsClaimed ==
    [][\A c \in SocketClients : \A s \in SocketsOf(c) :
          LateEvent(c, s) =>
              /\ me'[c].isConnected = me[c].isConnected
              /\ sockets'[c].current = sockets[c].current
              /\ me'[c].identifier = me[c].identifier
              /\ me'[c].receiver = me[c].receiver]_vars

====
